---------------------------- MODULE Spec2Model ----------------------------
(***************************************************************************)
(* Model of the executive-move extraction engine of people-on-the-move     *)
(* (src/src/aggregator/parsers.py with the vocabularies of                 *)
(* src/src/aggregator/rss_sources.py).                                     *)
(*                                                                         *)
(* Texts are TLA+ strings.  The Python string operations and the regular   *)
(* expressions of the source are modelled character by character on them:  *)
(* str.lower, the `in' substring test, str.split, str.strip, re.search     *)
(* with word boundaries, alternation, greedy quantifiers and backtracking. *)
(* An optional value (Optional[...] in the source) is a sequence of length *)
(* 0 (None) or 1 (the value).                                              *)
(***************************************************************************)
EXTENDS Integers, Sequences, FiniteSets, TLC

VARIABLES
    title,           \* parse_article / is_executive_move argument
    content,         \* parse_article / is_executive_move argument
    published_date,  \* parse_article argument (feed-supplied date text)
    source_url,      \* parse_article argument
    source_name,     \* parse_article argument
    max_age_days,    \* parse_article argument, <<>> is None
    now,             \* what datetime.now() returns during the call
    text,            \* argument of extract_person_name/_title/_action
    name,            \* argument of _is_valid_person_name
    companies,       \* the list of tracked companies (find_company_in_text)
    web,             \* what the news sources return during fetch_all
    all_announcements, \* what fetch_all collected before de-duplicating
    session,         \* the database: the announcements and posts tables
    ann_data,        \* save_announcement argument
    parsers,         \* the attributes of each ArticleParser instance
    instance,        \* the instance parse_article was last called on
    earlier,         \* an earlier parse_article call, <<>> when none is kept
    once,            \* main: the --once flag
    company_filter,  \* main: the --company option, <<>> when not given
    runs,            \* main: how many times the loop body was entered
    pc,              \* the call that is pending, or "done"
    ret              \* the value the call returned

vars == <<title, content, published_date, source_url, source_name, max_age_days,
          now, text, name, companies, web, all_announcements, session,
          ann_data, parsers, instance, earlier,
          once, company_filter, runs, pc, ret>>

None == <<>>
Some(v) == <<v>>

-----------------------------------------------------------------------------
(* Characters and the Python string operations                              *)

UpperChars == "ABCDEFGHIJKLMNOPQRSTUVWXYZ"
LowerChars == "abcdefghijklmnopqrstuvwxyz"
DigitChars == "0123456789"

CharSet(s) == { SubSeq(s, i, i) : i \in 1..Len(s) }

Upper == CharSet(UpperChars)
Lower == CharSet(LowerChars)
Digit == CharSet(DigitChars)
\* \w of a str pattern, restricted to ASCII
WordChar == Upper \cup Lower \cup Digit \cup {"_"}
\* \s of a str pattern and the separators of str.split()/str.strip()
Space == {" ", "\t", "\n", "\r", "\f"}

At(s, i) == IF 1 <= i /\ i <= Len(s) THEN SubSeq(s, i, i) ELSE ""

\* Python slice s[i-1:j] with 1-based inclusive ends clamped to the string
Slice(s, i, j) == SubSeq(s, IF i < 1 THEN 1 ELSE i, IF j > Len(s) THEN Len(s) ELSE j)

ToLowerMap == [ c \in Upper |->
                  SubSeq(LowerChars, CHOOSE i \in 1..26 : SubSeq(UpperChars, i, i) = c,
                                     CHOOSE i \in 1..26 : SubSeq(UpperChars, i, i) = c) ]

LowerChar(c) == IF c \in Upper THEN ToLowerMap[c] ELSE c

RECURSIVE StrLower(_)
\* str.lower()
StrLower(s) == IF Len(s) <= 1 THEN LowerChar(s)
               ELSE StrLower(SubSeq(s, 1, Len(s) \div 2))
                    \o StrLower(SubSeq(s, Len(s) \div 2 + 1, Len(s)))

\* s[i:].startswith(k) with 1-based i
StartsAt(s, i, k) == i >= 1 /\ i + Len(k) - 1 <= Len(s) /\ SubSeq(s, i, i + Len(k) - 1) = k

\* Python `k in s'
Contains(s, k) == \E i \in 1..(Len(s) - Len(k) + 1) : SubSeq(s, i, i + Len(k) - 1) = k

\* f"{a} {b}"
Fmt2(a, b) == a \o " " \o b

\* str.isupper(): at least one cased character and no lower-case one
IsUpper(s) == /\ \E i \in 1..Len(s) : SubSeq(s, i, i) \in Upper
              /\ \A i \in 1..Len(s) : SubSeq(s, i, i) \notin Lower

RECURSIVE SpanEnd(_, _, _)
\* last index of the maximal run of characters of class C that starts at i
\* (i - 1 when s[i] is not in C): how far a greedy C* reaches
SpanEnd(s, i, C) == IF i <= Len(s) /\ SubSeq(s, i, i) \in C
                    THEN SpanEnd(s, i + 1, C) ELSE i - 1

RECURSIVE SpanEndNot(_, _, _)
\* last index of the maximal run of characters outside class C from i
SpanEndNot(s, i, C) == IF i <= Len(s) /\ SubSeq(s, i, i) \notin C
                       THEN SpanEndNot(s, i + 1, C) ELSE i - 1

RECURSIVE SplitFrom(_, _)
\* str.split(): the maximal runs of non-space characters, in order
SplitFrom(s, i) ==
    IF i > Len(s) THEN <<>>
    ELSE IF SubSeq(s, i, i) \in Space THEN SplitFrom(s, i + 1)
    ELSE LET e == SpanEndNot(s, i, Space)
         IN  <<SubSeq(s, i, e)>> \o SplitFrom(s, e + 1)

Split(s) == SplitFrom(s, 1)

\* str.strip()
Strip(s) ==
    LET nonsp == { i \in 1..Len(s) : SubSeq(s, i, i) \notin Space }
    IN  IF nonsp = {} THEN ""
        ELSE SubSeq(s, CHOOSE i \in nonsp : \A j \in nonsp : i <= j,
                       CHOOSE i \in nonsp : \A j \in nonsp : i >= j)

RECURSIVE Join(_)
\* " ".join(words)
Join(ws) == IF ws = <<>> THEN ""
            ELSE IF Len(ws) = 1 THEN ws[1]
            ELSE ws[1] \o " " \o Join(Tail(ws))

\* the smallest element of a non-empty set of integers
Min(S) == CHOOSE i \in S : \A j \in S : i <= j

\* \b of a str pattern between s[p] and s[p+1] (1-based, p in 0..Len(s))
WordBoundary(s, p) == (At(s, p) \in WordChar) # (At(s, p + 1) \in WordChar)

-----------------------------------------------------------------------------
(* Vocabularies                                                             *)

EXECUTIVE_KEYWORDS == <<
    "appointed", "promoted", "named", "joins", "hires", "hired",
    "new ceo", "new president", "new chief", "new vp", "new vice president",
    "new director", "announces", "leadership", "executive", "succession",
    "steps down", "retires", "takes over", "taps", "elevates", "selects",
    "names", "appoints" >>

EXECUTIVE_TITLES == <<
    "CEO", "Chief Executive Officer", "President", "COO",
    "Chief Operating Officer", "CFO", "Chief Financial Officer", "CMO",
    "Chief Marketing Officer", "CTO", "Chief Technology Officer", "CIO",
    "Chief Information Officer", "CHRO", "Chief Human Resources Officer",
    "Chief Supply Chain Officer", "Chief Commercial Officer",
    "Chief Revenue Officer", "Chief Sales Officer", "Chief Strategy Officer",
    "Vice President", "VP", "SVP", "Senior Vice President", "EVP",
    "Executive Vice President", "Group Vice President",
    "Regional Vice President", "VP of Sales", "VP of Marketing",
    "VP of Operations", "VP of Finance", "VP of Human Resources",
    "VP of Supply Chain", "VP of Manufacturing", "VP of Procurement",
    "VP of Quality", "VP of R&D", "VP of Research",
    "Director", "Senior Director", "Executive Director", "Managing Director",
    "Regional Director", "Director of Sales", "Director of Marketing",
    "Director of Operations", "Director of Finance",
    "General Manager", "Plant Manager", "Division President",
    "Business Unit President",
    "Chairman", "Board Member", "Board Director" >>


FALSE_POSITIVE_NAMES == {
    "supermarket news", "progressive grocer", "grocery dive", "food dive",
    "meat poultry", "meat + poultry", "reuters", "associated press",
    "ap news", "business wire", "pr newswire", "globe newswire", "cision",
    "yahoo finance", "wall street journal", "new york times", "bloomberg",
    "cnbc", "fox business", "food business news", "food navigator",
    "the packer", "produce news", "watt poultry", "national provisioner",
    "perishable news", "spectrum news", "xavier newswire",
    "investment executive", "industry dive", "quietly setting up",
    "business chief", "warns of", "brings walmart experience",
    "walmart executive", "settled this lawsuit", "grocery chain",
    "retail giant", "food company", "meat company", "industry veteran",
    "company announces", "press release", "news release", "breaking news",
    "just announced", "read more", "click here", "learn more", "see more",
    "view all", "president trump", "president biden", "president obama",
    "greg foran takes", "brings experience", "takes helm", "steps down",
    "steps up", "moves up", "moves on", "stepping down", "stepping up",
    "butterball farms", "tyson foods", "hormel foods", "cargill inc",
    "jbs usa", "smithfield foods", "pilgrim pride", "perdue farms",
    "conagra brands", "kraft heinz", "general mills", "kellogg company",
    "nestle usa", "unilever usa", "pepsico inc", "coca cola", "new ceo",
    "new president", "new cfo", "new coo", "next ceo", "its next ceo",
    "new hire", "top executive", "senior executive", "board member",
    "board director", "company executive" }

INVALID_FIRST_WORDS == {
    "the", "a", "an", "new", "former", "current", "acting", "interim",
    "its", "their", "our", "your", "his", "her", "this", "that", "brings",
    "quietly", "business", "walmart", "kroger", "tyson", "supermarket",
    "progressive", "grocery", "food", "meat", "industry", "company",
    "corporate", "executive", "president", "investment", "retail",
    "wholesale", "breaking", "just", "press", "news", "warns", "settled",
    "takes", "steps", "moves", "stepping", "read", "click", "learn", "see",
    "view", "get", "how", "why", "what", "when", "where", "who", "which",
    "here", "there", "vet", "veteran", "longtime", "seasoned", "senior",
    "junior", "chief", "ceo", "cfo", "coo", "cto", "cmo", "vp", "svp",
    "evp", "director", "manager", "head", "leader", "founder", "owner" }

INVALID_LAST_WORDS == {
    "news", "grocer", "dive", "wire", "times", "journal", "post", "tribune",
    "herald", "gazette", "press", "media", "report", "foods", "farms",
    "inc", "corp", "corporation", "company", "co", "llc", "ltd", "group",
    "holdings", "brands", "products", "experience", "chief", "executive",
    "lawsuit", "helm", "ceo", "cfo", "coo", "cto", "cmo", "vp", "svp",
    "evp", "up", "down", "on", "off", "out", "in", "here", "there" }

-----------------------------------------------------------------------------
(* ArticleParser: classification                                            *)

\* The compiled title patterns, \b<title>\b with re.IGNORECASE, in the order
\* of EXECUTIVE_TITLES.  Case is ignored by comparing case-folded texts, so a
\* pattern is kept as its case-folded literal.
title_patterns == [ k \in 1..Len(EXECUTIVE_TITLES) |-> StrLower(EXECUTIVE_TITLES[k]) ]

\* Start positions at which pattern p matches s; `folded' is StrLower(s).
\* The word boundaries are those of s itself.
TitleHits(p, s, folded) ==
    { i \in 1..(Len(s) - Len(p) + 1) :
        /\ SubSeq(folded, i, i + Len(p) - 1) = p
        /\ WordBoundary(s, i - 1)
        /\ WordBoundary(s, i + Len(p) - 1) }

\* pattern.search(s): 0 when there is no match, else the leftmost start
TitleSearch(p, s, folded) ==
    LET hits == TitleHits(p, s, folded)
    IN  IF hits = {} THEN 0 ELSE Min(hits)

\* is_executive_move without its second stage
is_executive_move_keyword_only(t, c) ==
    \E k \in 1..Len(EXECUTIVE_KEYWORDS) :
        Contains(StrLower(Fmt2(t, c)), EXECUTIVE_KEYWORDS[k])

is_executive_move(t, c) ==
    LET combined_text == StrLower(Fmt2(t, c))
        keyword_match == \E k \in 1..Len(EXECUTIVE_KEYWORDS) :
                             Contains(combined_text, EXECUTIVE_KEYWORDS[k])
        title_match == \E k \in 1..Len(title_patterns) :
                           TitleSearch(title_patterns[k], combined_text,
                                       StrLower(combined_text)) # 0
    IN  IF ~keyword_match THEN FALSE ELSE title_match

-----------------------------------------------------------------------------
(* ArticleParser: person names                                              *)

\* the second words of publication and company names (line 199)
second_word_terms == { "news", "dive", "wire", "grocer", "times", "journal",
                       "post", "tribune", "herald", "gazette", "foods",
                       "farms", "brands", "executive" }

verbs_as_names == { "promoted", "appointed", "named", "hired", "takes",
                    "joins", "becomes", "steps", "moves", "brings" }

political_names == { "trump", "biden", "obama", "bush", "clinton" }

non_name_middle_words == { "and", "or", "the", "of", "for", "at", "in", "on",
                           "to", "as", "its", "their", "new", "next" }

\* _is_valid_person_name without the check of the last word
_is_valid_person_name_any_last_word(n) ==
    LET words == Split(n)
        middle_words == IF Len(words) > 2 THEN SubSeq(words, 2, Len(words) - 1)
                        ELSE <<>>
    IN  /\ n # ""
        /\ StrLower(n) \notin FALSE_POSITIVE_NAMES
        /\ 2 <= Len(words) /\ Len(words) <= 4
        /\ StrLower(words[1]) \notin INVALID_FIRST_WORDS
        /\ ~(IsUpper(words[1]) /\ Len(words[1]) > 1)
        /\ StrLower(words[2]) \notin second_word_terms
        /\ StrLower(words[Len(words)]) \notin verbs_as_names
        /\ \A k \in 1..Len(middle_words) :
               ~(/\ StrLower(middle_words[k]) \in non_name_middle_words
                 /\ Len(middle_words[k]) <= 3)

_is_valid_person_name(n) ==
    LET name_lower == StrLower(n)
        words == Split(n)
        first_word == StrLower(words[1])
        last_word == StrLower(words[Len(words)])
        middle_words == IF Len(words) > 2 THEN SubSeq(words, 2, Len(words) - 1)
                        ELSE <<>>
    IN  IF n = "" THEN FALSE
        ELSE IF name_lower \in FALSE_POSITIVE_NAMES THEN FALSE
        ELSE IF ~(2 <= Len(words) /\ Len(words) <= 4) THEN FALSE
        ELSE IF first_word \in INVALID_FIRST_WORDS THEN FALSE
        ELSE IF last_word \in INVALID_LAST_WORDS THEN FALSE
        ELSE IF IsUpper(words[1]) /\ Len(words[1]) > 1 THEN FALSE
        ELSE IF Len(words) >= 2 /\ StrLower(words[2]) \in second_word_terms
             THEN FALSE
        ELSE IF last_word \in verbs_as_names THEN FALSE
        ELSE IF /\ Len(words) >= 2
                /\ first_word = "president"
                /\ StrLower(words[2]) \in political_names
             THEN FALSE
        ELSE IF \E k \in 1..Len(middle_words) :
                    /\ StrLower(middle_words[k]) \in non_name_middle_words
                    /\ Len(middle_words[k]) <= 3
             THEN FALSE
        ELSE TRUE

(***************************************************************************)
(* The twelve patterns of extract_person_name share one capture group,     *)
(*   NAME = [A-Z][a-z]+\s+(?:[A-Z]\.?\s+)?[A-Z][a-z]+(?:\s+[A-Z][a-z]+)?   *)
(* and differ in what precedes and follows it.  A pattern is a record:     *)
(*   anchor  the pattern starts with ^                                     *)
(*   pre     the alternatives that precede the group, each a sequence of   *)
(*           literals l1, l2, ... standing for l1\s+l2\s+...; {} for none  *)
(*   comma   the group is followed by ,?                                   *)
(*   suf     the alternatives that follow the group, each a sequence of    *)
(*           literals l1, l2, ... standing for \s+l1\s+l2...; {} for none  *)
(***************************************************************************)
Lits(S) == { <<l>> : l \in S }

name_patterns == <<
    [anchor |-> FALSE, comma |-> FALSE,
     pre |-> Lits({"Appoints", "Names", "Taps", "Hires", "Promotes", "Selects", "Elevates"}),
     suf |-> Lits({"as", "to", "for", "Group"})],
    [anchor |-> FALSE, comma |-> FALSE,
     pre |-> { <<"Appointment", "of">> }, suf |-> {}],
    [anchor |-> TRUE, comma |-> FALSE,
     pre |-> {}, suf |-> Lits({"has been", "was", "is", "will"})],
    [anchor |-> FALSE, comma |-> FALSE,
     pre |-> Lits({"appointed", "named", "hired", "promote", "promotes", "taps",
              "selects", "elevates"}),
     suf |-> Lits({"as", "to", "for"})],
    [anchor |-> FALSE, comma |-> FALSE,
     pre |-> Lits({"welcome", "welcomes", "announce", "announces"}), suf |-> {}],
    [anchor |-> FALSE, comma |-> FALSE,
     pre |-> {},
     suf |-> Lits({"joins", "named", "appointed", "to lead", "to head", "becomes"})],
    [anchor |-> FALSE, comma |-> TRUE,
     pre |-> {}, suf |-> Lits({"the new", "new", "as", "named"})],
    [anchor |-> FALSE, comma |-> FALSE,
     pre |-> Lits({"CEO", "President", "CFO", "COO", "VP", "Director"}), suf |-> {}],
    [anchor |-> FALSE, comma |-> FALSE,
     pre |-> Lits({"names"}),
     suf |-> Lits({"CEO", "President", "CFO", "COO", "VP", "Director", "Chief"})],
    [anchor |-> FALSE, comma |-> FALSE,
     pre |-> {},
     suf |-> { <<"to", l>> : l \in {"CEO", "President", "CFO", "COO", "VP",
                                    "Director", "Chief"} }],
    [anchor |-> FALSE, comma |-> FALSE,
     pre |-> Lits({"hires"}), suf |-> {}],
    [anchor |-> FALSE, comma |-> FALSE,
     pre |-> {}, suf |-> Lits({"promoted", "elevated", "tapped"})] >>

\* [A-Z][a-z]+ at i, greedy: the index of its last character, 0 for no match
CapWord(s, i) == IF At(s, i) \in Upper /\ At(s, i + 1) \in Lower
                 THEN SpanEnd(s, i + 1, Lower) ELSE 0

\* \s+ at i, greedy: the index after the run, 0 for no match
SkipSpaces(s, i) == IF i >= 1 /\ At(s, i) \in Space
                    THEN SpanEnd(s, i, Space) + 1 ELSE 0

(***************************************************************************)
(* The ends of NAME matched at i, each with the rank in which the          *)
(* backtracking matcher tries it.  Whatever follows NAME in a pattern      *)
(* begins with \s or ,?\s, and every \s+ inside NAME is followed by [A-Z]: *)
(* an [a-z]+ that gives characters back is followed by a lower-case letter *)
(* and fails, so only whole words are candidates.  The optional initial,   *)
(* when it matches, excludes the branch without it (its second character   *)
(* is `.' or space).  What is left to choose is the optional third word,   *)
(* tried first (rank 1) and then left out (rank 2).                        *)
(***************************************************************************)
NameEnds(s, i) ==
    LET second == { SkipSpaces(s, e1 + 1) : e1 \in {CapWord(s, i)} \ {0} } \ {0}
        initial == { SkipSpaces(s, IF At(s, p + 1) = "." THEN p + 2 ELSE p + 1) :
                       p \in { q \in second : At(s, q) \in Upper } } \ {0}
        two == { CapWord(s, p) : p \in second \cup initial } \ {0}
        three == { CapWord(s, p) :
                     p \in { SkipSpaces(s, e + 1) : e \in two } \ {0} } \ {0}
    IN  { <<1, e>> : e \in three } \cup { <<2, e>> : e \in two }

RECURSIVE LitsAt(_, _, _)
\* \s+l1\s+l2... matches at p
LitsAt(s, p, lits) ==
    IF lits = <<>> THEN TRUE
    ELSE LET q == SkipSpaces(s, p)
         IN  /\ q # 0
             /\ StartsAt(s, q, Head(lits))
             /\ LitsAt(s, q + Len(Head(lits)), Tail(lits))

RECURSIVE PreEnd(_, _, _)
\* l1\s+l2\s+... matches at i: the index after it, 0 for no match
PreEnd(s, i, lits) ==
    IF lits = <<>> THEN i
    ELSE IF ~StartsAt(s, i, Head(lits)) THEN 0
    ELSE LET q == SkipSpaces(s, i + Len(Head(lits)))
         IN  IF q = 0 THEN 0 ELSE PreEnd(s, q, Tail(lits))

\* what follows the group matches after a NAME that ends at e
SuffixAt(P, s, e) ==
    \/ P.suf = {}
    \/ \E lits \in P.suf :
          LitsAt(s, IF P.comma /\ At(s, e + 1) = "," THEN e + 2 ELSE e + 1, lits)

\* where the group starts when the pattern is matched at i: no position or
\* one, since an alternative is a literal followed by \s
NameStart(P, s, i) ==
    IF P.pre = {} THEN {i}
    ELSE { PreEnd(s, i, a) : a \in P.pre } \ {0}

\* the span <<first, last>> the matcher settles on, of ranked spans
Preferred(spans) ==
    LET m == CHOOSE x \in spans : \A y \in spans : x[1] <= y[1]
    IN  <<m[2], m[3]>>

\* re.match of pattern P at i: None, or the span <<first, last>> of group 1
MatchAt(P, s, i) ==
    LET spans == UNION { { <<r[1], n, r[2]>> :
                             r \in { q \in NameEnds(s, n) : SuffixAt(P, s, q[2]) } } :
                         n \in NameStart(P, s, i) }
    IN  IF spans = {} THEN None ELSE Some(Preferred(spans))

\* match.group(1) of a match whose group 1 has the span m
Group(s, m) == SubSeq(s, m[1], m[2])

\* re.search(P, s): the match at the leftmost position that has one;
\* None, or match.group(1)
NameSearch(P, s) ==
    LET from == IF P.anchor THEN {1} ELSE 1..Len(s)
        at == { i \in from : MatchAt(P, s, i) # None }
    IN  IF at = {} THEN None
        ELSE Some(Group(s, MatchAt(P, s, Min(at))[1]))

RECURSIVE TryPatterns_first_match_only(_, _)
\* the loop giving up at the first pattern that matches, valid or not
TryPatterns_first_match_only(s, k) ==
    IF k > Len(name_patterns) THEN None
    ELSE LET match == NameSearch(name_patterns[k], s)
         IN  IF match = None THEN TryPatterns_first_match_only(s, k + 1)
             ELSE IF \E n \in {Strip(match[1])} : _is_valid_person_name(n)
                  THEN Some(Strip(match[1]))
                  ELSE None

RECURSIVE TryPatterns(_, _)
\* the loop of extract_person_name from pattern k on
TryPatterns(s, k) ==
    IF k > Len(name_patterns) THEN None
    ELSE LET match == NameSearch(name_patterns[k], s)
         IN  IF /\ match # None
                /\ \E n \in {Strip(match[1])} : _is_valid_person_name(n)
             THEN Some(Strip(match[1]))
             ELSE TryPatterns(s, k + 1)

extract_person_name(s) == TryPatterns(s, 1)

-----------------------------------------------------------------------------
(* ArticleParser: title and action                                          *)

\* the characters of context searched on each side of the vocabulary hit
CONTEXT_CHARS == 50

RECURSIVE ModifierStarts(_, _)
(***************************************************************************)
(* (?:\w+\s+)* from q: the positions it can stop at, the farthest first.   *)
(* It stops only where a word starts: a \w+ or \s+ that gives characters   *)
(* back leaves the next step nothing to match.                             *)
(***************************************************************************)
ModifierStarts(s, q) ==
    LET we == SpanEnd(s, q, WordChar)
        nx == IF we < q THEN 0 ELSE SkipSpaces(s, we + 1)
    IN  IF nx = 0 THEN <<q>> ELSE ModifierStarts(s, nx) \o <<q>>

\* (?:\s+of\s+\w+)? after a title that ends at e, greedy: the end of group 1
OfEntityEnd(s, folded, e) ==
    LET q == SkipSpaces(s, e + 1)
        r == IF q # 0 /\ StartsAt(folded, q, "of") THEN SkipSpaces(s, q + 2) ELSE 0
        we == IF r = 0 THEN 0 ELSE SpanEnd(s, r, WordChar)
    IN  IF r # 0 /\ we >= r THEN we ELSE e

(***************************************************************************)
(* re.match at i of                                                        *)
(*   (?:as|to|new)\s+((?:\w+\s+)*<matched>(?:\s+of\s+\w+)?)                *)
(* with re.IGNORECASE, `matched' case-folded: None, or the span of group 1 *)
(***************************************************************************)
FullTitleAt(s, folded, i, matched) ==
    LET conn == { c \in {"as", "to", "new"} : StartsAt(folded, i, c) }
        g == IF conn = {} THEN 0
             ELSE SkipSpaces(s, i + Len(CHOOSE c \in conn : TRUE))
        stops == IF g = 0 THEN <<>> ELSE ModifierStarts(s, g)
        good == { k \in 1..Len(stops) : StartsAt(folded, stops[k], matched) }
    IN  IF good = {} THEN None
        ELSE Some(<<g, OfEntityEnd(s, folded, stops[Min(good)] + Len(matched) - 1)>>)

\* re.search of the full-title pattern in context s: None, or group(1)
FullTitleSearch(s, matched) ==
    LET folded == StrLower(s)
        at == { i \in 1..Len(s) : FullTitleAt(s, folded, i, matched) # None }
    IN  IF at = {} THEN None
        ELSE LET m == FullTitleAt(s, folded, Min(at), matched)[1]
             IN  Some(SubSeq(s, m[1], m[2]))

\* the loop body searching the whole text instead of the context window
TitleFromMatch_whole_text(s, i, p) ==
    LET full_title_match == FullTitleSearch(s, p)
    IN  IF full_title_match # None THEN Strip(full_title_match[1])
        ELSE SubSeq(s, i, i + Len(p) - 1)

\* the body of the loop of extract_title for a pattern that matches at i
TitleFromMatch(s, i, p) ==
    LET j == i + Len(p) - 1
        context == Slice(s, i - CONTEXT_CHARS, j + CONTEXT_CHARS)
        full_title_match == FullTitleSearch(context, p)
    IN  IF full_title_match # None THEN Strip(full_title_match[1])
        ELSE SubSeq(s, i, j)

RECURSIVE TryTitles(_, _, _)
\* the loop of extract_title from pattern k on
TryTitles(s, folded, k) ==
    IF k > Len(title_patterns) THEN None
    ELSE LET i == TitleSearch(title_patterns[k], s, folded)
         IN  IF i # 0 THEN Some(TitleFromMatch(s, i, title_patterns[k]))
             ELSE TryTitles(s, folded, k + 1)

extract_title(s) == TryTitles(s, StrLower(s), 1)

\* extract_action testing "names"/"named" before "promoted"
extract_action_named_first(s) ==
    LET text_lower == StrLower(s)
    IN  IF Contains(text_lower, "names") \/ Contains(text_lower, "named")
             THEN "named"
        ELSE IF Contains(text_lower, "promoted") THEN "promoted to"
        ELSE IF Contains(text_lower, "appoints") \/ Contains(text_lower, "appointed")
             THEN "appointed"
        ELSE IF Contains(text_lower, "taps") \/ Contains(text_lower, "tapped")
             THEN "tapped as"
        ELSE IF \/ Contains(text_lower, "joins")
                \/ Contains(text_lower, "hired")
                \/ Contains(text_lower, "hires")
             THEN "joins as"
        ELSE IF Contains(text_lower, "announces") \/ Contains(text_lower, "appointment")
             THEN "announced as"
        ELSE "named"

extract_action(s) ==
    LET text_lower == StrLower(s)
    IN  IF Contains(text_lower, "promoted") THEN "promoted to"
        ELSE IF Contains(text_lower, "appoints") \/ Contains(text_lower, "appointed")
             THEN "appointed"
        ELSE IF Contains(text_lower, "taps") \/ Contains(text_lower, "tapped")
             THEN "tapped as"
        ELSE IF Contains(text_lower, "names") \/ Contains(text_lower, "named")
             THEN "named"
        ELSE IF \/ Contains(text_lower, "joins")
                \/ Contains(text_lower, "hired")
                \/ Contains(text_lower, "hires")
             THEN "joins as"
        ELSE IF Contains(text_lower, "announces") \/ Contains(text_lower, "appointment")
             THEN "announced as"
        ELSE "named"

-----------------------------------------------------------------------------
(* ArticleParser: markup, dates and parse_article                           *)

RECURSIVE TextNodes(_, _)
(***************************************************************************)
(* The text nodes of a document of plain text and element tags <...>, from *)
(* position i on: what BeautifulSoup.get_text walks over.  A `<' that no   *)
(* `>' closes is text.                                                     *)
(***************************************************************************)
TextNodes(s, i) ==
    IF i > Len(s) THEN <<>>
    ELSE LET closes == { j \in (i + 1)..Len(s) : At(s, j) = ">" }
             opens == { j \in i..Len(s) :
                          At(s, j) = "<" /\ \E c \in closes : c > j }
         IN  IF opens = {} THEN <<SubSeq(s, i, Len(s))>>
             ELSE LET o == Min(opens)
                      c == Min({ j \in closes : j > o })
                  IN  (IF o > i THEN <<SubSeq(s, i, o - 1)>> ELSE <<>>)
                      \o TextNodes(s, c + 1)

RECURSIVE JoinWith(_, _)
\* sep.join(parts)
JoinWith(parts, sep) ==
    IF parts = <<>> THEN ""
    ELSE IF Len(parts) = 1 THEN parts[1]
    ELSE parts[1] \o sep \o JoinWith(Tail(parts), sep)

RECURSIVE CollapseSpaces(_, _, _)
\* re.sub(r'\s+', ' ', s) on the positions lo..hi of s: a character outside
\* a run of white space is kept, and a run becomes the one space written at
\* its first character
CollapseSpaces(s, lo, hi) ==
    IF lo > hi THEN ""
    ELSE IF lo = hi
         THEN IF At(s, lo) \notin Space THEN At(s, lo)
              ELSE IF At(s, lo - 1) \in Space THEN "" ELSE " "
    ELSE CollapseSpaces(s, lo, (lo + hi) \div 2)
         \o CollapseSpaces(s, (lo + hi) \div 2 + 1, hi)

clean_html(html_content) ==
    LET txt == JoinWith(TextNodes(html_content, 1), " ")
    IN  Strip(CollapseSpaces(txt, 1, Len(txt)))

(***************************************************************************)
(* datetime values: wall is the wall-clock reading in hours since          *)
(* 2026-10-01 00:00, tzinfo the UTC offset in hours of an aware value and  *)
(* None for a naive one.  What dateutil makes of the feed's date texts is  *)
(* tabled for the texts the model feeds in.  A text whose number does not  *)
(* fit a C int makes dateutil raise OverflowError (datetime.replace does);  *)
(* any other non-empty text raises ParserError, a ValueError.              *)
(***************************************************************************)
HoursPerDay == 24

\* an exception that leaves the call, as a result
Raises(e) == <<"raise", e>>

\* the result r is an exception
Raised(r) == Len(r) = 2

Datetime(day, hour, tz) == [wall |-> (day - 1) * HoursPerDay + hour, tzinfo |-> tz]

DateutilParse ==
    [ d \in { "Thu, 22 Oct 2026 12:00:00",
              "Sun, 25 Oct 2026 18:00:00 GMT",
              "Sun, 25 Oct 2026 18:00:00 +0800" } |->
        CASE d = "Thu, 22 Oct 2026 12:00:00" -> Datetime(22, 12, None)
          [] d = "Sun, 25 Oct 2026 18:00:00 GMT" -> Datetime(25, 18, Some(0))
          [] d = "Sun, 25 Oct 2026 18:00:00 +0800" -> Datetime(25, 18, Some(8)) ]

\* the texts for which dateutil.parser.parse raises OverflowError
DateutilOverflow == { "2147483648" }

\* except (ValueError, TypeError): an OverflowError is neither
parse_date(date_str) ==
    IF date_str = "" THEN None
    ELSE IF date_str \in DOMAIN DateutilParse THEN Some(DateutilParse[date_str])
    ELSE IF date_str \in DateutilOverflow THEN Raises("OverflowError")
    ELSE None

\* datetime.replace(tzinfo=None) with the offset applied first, as
\* astimezone would
ReplaceTzinfoNone_astimezone(dt) == [wall |-> dt.wall - dt.tzinfo[1], tzinfo |-> None]

\* datetime.replace(tzinfo=None): the wall-clock fields are kept
ReplaceTzinfoNone(dt) == [dt EXCEPT !.tzinfo = None]

\* the characters of title and body stored as raw_text
RAW_TEXT_CHARS == 2000

\* datetime.date(): the calendar day of the wall-clock reading
DateOf(dt) == dt.wall \div HoursPerDay

\* the dict parse_article returns, with the whole text as raw_text
Candidate_whole_text(person_name, combined_text, announcement_date, su, sn) ==
    [ person_name |-> person_name,
      new_title |-> extract_title(combined_text),
      action |-> extract_action(combined_text),
      raw_text |-> combined_text,
      source_url |-> su,
      source_name |-> sn,
      announcement_date |-> IF announcement_date # None
                            THEN Some(DateOf(announcement_date[1])) ELSE None ]

\* the dict parse_article returns
Candidate(person_name, combined_text, announcement_date, su, sn) ==
    [ person_name |-> person_name,
      new_title |-> extract_title(combined_text),
      action |-> extract_action(combined_text),
      raw_text |-> Slice(combined_text, 1, RAW_TEXT_CHARS),
      source_url |-> su,
      source_name |-> sn,
      announcement_date |-> IF announcement_date # None
                            THEN Some(DateOf(announcement_date[1])) ELSE None ]

\* parse_article without the test for a person name
parse_article_keeps_nameless(t, c, pd, su, sn, mad, nw) ==
    LET clean_content == IF c # "" THEN clean_html(c) ELSE ""
        combined_text == Fmt2(t, clean_content)
        announcement_date == parse_date(pd)
        person_name == extract_person_name(combined_text)
    IN  IF ~is_executive_move(t, clean_content) THEN None
        ELSE IF Raised(announcement_date) THEN announcement_date
        ELSE IF /\ mad # None /\ mad[1] # 0
                /\ announcement_date # None
                /\ announcement_date[1].wall < nw - mad[1] * HoursPerDay
             THEN None
        ELSE Some(Candidate(IF person_name = None THEN "" ELSE person_name[1],
                            combined_text, announcement_date, su, sn))

\* parse_article taking the date from the text when the text has one
parse_article_date_from_text(t, c, pd, su, sn, mad, nw) ==
    LET clean_content == IF c # "" THEN clean_html(c) ELSE ""
        combined_text == Fmt2(t, clean_content)
        in_text == { d \in DOMAIN DateutilParse : Contains(combined_text, d) }
        announcement_date == IF in_text # {}
                             THEN parse_date(CHOOSE d \in in_text : TRUE)
                             ELSE parse_date(pd)
        person_name == extract_person_name(combined_text)
    IN  IF ~is_executive_move(t, clean_content) THEN None
        ELSE IF Raised(announcement_date) THEN announcement_date
        ELSE IF /\ mad # None /\ mad[1] # 0
                /\ announcement_date # None
                /\ announcement_date[1].wall < nw - mad[1] * HoursPerDay
             THEN None
        ELSE IF person_name = None \/ person_name = Some("") THEN None
        ELSE Some(Candidate(person_name[1], combined_text, announcement_date,
                            su, sn))

parse_article(t, c, pd, su, sn, mad, nw) ==
    LET clean_content == IF c # "" THEN clean_html(c) ELSE ""
        combined_text == Fmt2(t, clean_content)
        announcement_date == parse_date(pd)
        \* datetime.now() is naive
        cutoff == [wall |-> nw - mad[1] * HoursPerDay, tzinfo |-> None]
        ann_date == IF announcement_date[1].tzinfo # None
                    THEN ReplaceTzinfoNone(announcement_date[1])
                    ELSE announcement_date[1]
        filtered == mad # None /\ mad[1] # 0 /\ announcement_date # None
        person_name == extract_person_name(combined_text)
    IN  IF ~is_executive_move(t, clean_content) THEN None
        \* an exception parse_date does not catch leaves parse_article
        ELSE IF Raised(announcement_date) THEN announcement_date
        \* `<' between an aware and a naive datetime raises TypeError
        ELSE IF filtered /\ (ann_date.tzinfo = None) # (cutoff.tzinfo = None)
             THEN Raises("TypeError")
        ELSE IF filtered /\ ann_date.wall < cutoff.wall THEN None
        ELSE IF person_name = None \/ person_name = Some("") THEN None
        ELSE Some(Candidate(person_name[1], combined_text, announcement_date,
                            su, sn))

-----------------------------------------------------------------------------
(* ArticleParser instances                                                  *)

\* ArticleParser.__init__: the attributes of a new instance
ArticleParser == [ title_patterns |-> title_patterns ]

\* the instance drops its title patterns at the first call and extracts no
\* title afterwards
parse_article_on_draining(self, t, c, pd, su, sn, mad, nw) ==
    [ self |-> [ self EXCEPT !.title_patterns = <<>> ],
      result |-> IF self.title_patterns = <<>> THEN None
                 ELSE parse_article(t, c, pd, su, sn, mad, nw) ]

\* parse_article called on an instance: the attributes of the instance after
\* the call, none of which the call assigns, and the value returned
parse_article_on(self, t, c, pd, su, sn, mad, nw) ==
    [ self |-> self,
      result |-> parse_article(t, c, pd, su, sn, mad, nw) ]

-----------------------------------------------------------------------------
(* find_company_in_text                                                     *)

\* company.get('aliases', [])
Aliases(company) ==
    IF "aliases" \in DOMAIN company THEN company.aliases ELSE <<>>

\* the canonical names of all companies are tried before any alias
find_company_in_text_names_first(text_, companies_) ==
    LET text_lower == StrLower(text_)
        by_name == { i \in 1..Len(companies_) :
                       Contains(text_lower, StrLower(companies_[i].name)) }
        by_alias == { i \in 1..Len(companies_) :
                        \E k \in 1..Len(Aliases(companies_[i])) :
                          Contains(text_lower,
                                   StrLower(Aliases(companies_[i])[k])) }
    IN  IF by_name # {} THEN Some(companies_[Min(by_name)])
        ELSE IF by_alias # {} THEN Some(companies_[Min(by_alias)])
        ELSE None

\* the loop returns at the first company whose name, or else one of whose
\* aliases, is in the lower-cased text
find_company_in_text(text_, companies_) ==
    LET text_lower == StrLower(text_)
        found == { i \in 1..Len(companies_) :
                     \/ Contains(text_lower, StrLower(companies_[i].name))
                     \/ \E k \in 1..Len(Aliases(companies_[i])) :
                          Contains(text_lower,
                                   StrLower(Aliases(companies_[i])[k])) }
    IN  IF found # {} THEN Some(companies_[Min(found)]) ELSE None

-----------------------------------------------------------------------------
(* NewsFetcher and NewsAggregator                                           *)
(*                                                                         *)
(* A raw article is a record with the fields title, content, link,         *)
(* published and source_name.  web holds what each source returns while    *)
(* fetch_all runs: web.industry the articles of fetch_industry_feeds,      *)
(* web.google[c] the articles of fetch_rss_feed for each Google News query *)
(* about company c, web.newsapi[c], web.newsroom[c] and web.prnewswire[c]  *)
(* the articles of the three other sources.                                *)

\* EXECUTIVE_MOVE_QUERIES[:6]
QueryCount == 6

\* list.extend, over a list of lists
RECURSIVE Concat(_)
Concat(lists) ==
    IF lists = <<>> THEN <<>> ELSE Head(lists) \o Concat(Tail(lists))

\* the elements of seq at the indices in keep, from index i on, in order
RECURSIVE Retain(_, _, _)
Retain(seq, keep, i) ==
    IF i > Len(seq) THEN <<>>
    ELSE (IF i \in keep THEN <<seq[i]>> ELSE <<>>) \o Retain(seq, keep, i + 1)

\* fetch_google_news, "Deduplicate by URL": an article is appended unless
\* its link is already in seen_urls, the links of the articles before it
unique_articles(all_articles) ==
    Retain(all_articles,
           { i \in 1..Len(all_articles) :
               \A j \in 1..(i - 1) :
                 all_articles[j].link # all_articles[i].link },
           1)

fetch_google_news(w, company_name) ==
    unique_articles(Concat(SubSeq(w.google[company_name], 1, QueryCount)))

fetch_newsapi(w, company_name) == w.newsapi[company_name]

fetch_company_newsroom(w, company_name) ==
    [ k \in 1..Len(w.newsroom[company_name]) |->
        [ w.newsroom[company_name][k]
            EXCEPT !.source_name = company_name \o " Newsroom" ] ]

fetch_prnewswire_company(w, company_name) == w.prnewswire[company_name]

fetch_industry_feeds(w) == w.industry

\* a dict or a str in a condition
Truthy(opt) == opt # None /\ opt # Some("")

\* parsed['company_id'], parsed['company_name']: what process_articles
\* yields for a parsed article and the company found, if both are there
Attributed(parsed, company) ==
    IF parsed = None THEN <<>>
    ELSE IF company = None THEN <<>>
    ELSE << parsed[1] @@ [ company_id |-> company[1].id,
                           company_name |-> company[1].name ] >>

\* the target company is taken without looking for it in the text
CompanyFor_target_unverified(combined_text, target_company, cs) ==
    IF target_company # None THEN target_company
    ELSE find_company_in_text(combined_text, cs)

\* the company a target company or the tracked companies give for a text
CompanyFor(combined_text, target_company, cs) ==
    IF target_company # None
    THEN IF find_company_in_text(combined_text, <<target_company[1]>>) # None
         THEN target_company ELSE None
    ELSE find_company_in_text(combined_text, cs)

\* process_articles, one article: the parsed article with the company, or
\* nothing
ProcessArticle(article, target_company, cs, mad, nw) ==
    Attributed(parse_article(article.title, article.content,
                             article.published, Some(article.link),
                             Some(article.source_name), mad, nw),
               CompanyFor(Fmt2(article.title, article.content),
                          target_company, cs))

process_articles(articles, target_company, cs, mad, nw) ==
    Concat([ k \in 1..Len(articles) |->
               ProcessArticle(articles[k], target_company, cs, mad, nw) ])

fetch_for_company(w, company, cs, nw) ==
    process_articles(fetch_google_news(w, company.name)
                       \o fetch_newsapi(w, company.name)
                       \o fetch_company_newsroom(w, company.name)
                       \o fetch_prnewswire_company(w, company.name),
                     Some(company), cs, None, nw)

\* fetch_all up to its de-duplication: the industry feeds, then each company
\* in the order of self.companies
Collected(w, cs, nw) ==
    process_articles(fetch_industry_feeds(w), None, cs, None, nw)
      \o Concat([ k \in 1..Len(cs) |-> fetch_for_company(w, cs[k], cs, nw) ])

\* an announcement is dropped when any announcement before it has its URL,
\* empty or not
unique_by_membership(anns) ==
    Retain(anns,
           { i \in 1..Len(anns) :
               \A j \in 1..(i - 1) : anns[j].source_url # anns[i].source_url },
           1)

\* fetch_all, "Deduplicate by source_url": an announcement with a URL is
\* appended unless the URL is in seen_urls, one without is always appended
unique(anns) ==
    Retain(anns,
           { i \in 1..Len(anns) :
               \/ ~Truthy(anns[i].source_url)
               \/ \A j \in 1..(i - 1) :
                    anns[j].source_url # anns[i].source_url },
           1)

-----------------------------------------------------------------------------
(* save_announcement and the database operations it calls                   *)
(*                                                                         *)
(* session holds the rows of the announcements and posts tables in the     *)
(* order of insertion.  Times are hours; created_at and the cutoff of      *)
(* check_duplicate are both read from datetime.utcnow(), so the constant   *)
(* difference between utcnow() and now() cancels in their comparison and   *)
(* both clocks are modelled by now.                                        *)

\* settings.DEDUP_THRESHOLD_HOURS
DEDUP_THRESHOLD_HOURS == 24

\* Column.ilike("%" + pattern + "%") for a pattern without % and _
ILikeContains(value, pattern) ==
    Contains(StrLower(value), StrLower(pattern))

\* the row must carry exactly the given name
check_duplicate_exact_name(sess, company_id, person_name, hours, utcnow) ==
    LET cutoff == utcnow - hours
        rows == { k \in 1..Len(sess.announcements) :
                    /\ sess.announcements[k].company_id = company_id
                    /\ sess.announcements[k].person_name = person_name
                    /\ sess.announcements[k].created_at >= cutoff }
    IN  IF rows = {} THEN None ELSE Some(sess.announcements[Min(rows)])

check_duplicate(sess, company_id, person_name, hours, utcnow) ==
    LET cutoff == utcnow - hours
        rows == { k \in 1..Len(sess.announcements) :
                    /\ sess.announcements[k].company_id = company_id
                    /\ ILikeContains(sess.announcements[k].person_name,
                                     person_name)
                    /\ sess.announcements[k].created_at >= cutoff }
    IN  IF rows = {} THEN None ELSE Some(sess.announcements[Min(rows)])

\* Announcement: valid status values
STATUS_PENDING == "pending"
STATUS_APPROVED == "approved"
STATUS_REJECTED == "rejected"
STATUS_POSTED == "posted"

\* the row create_announcement adds; created_at and updated_at default to
\* utcnow()
NewAnnouncement(sess, ann, utcnow) ==
    [ id |-> Len(sess.announcements) + 1,
      company_id |-> ann.company_id,
      person_name |-> ann.person_name,
      new_title |-> ann.new_title,
      announcement_date |-> ann.announcement_date,
      source_url |-> ann.source_url,
      source_name |-> ann.source_name,
      previous_title |-> None,
      previous_company |-> None,
      raw_text |-> ann.raw_text,
      status |-> STATUS_PENDING,
      created_at |-> utcnow,
      updated_at |-> utcnow ]

create_announcement(sess, ann, utcnow) ==
    [ sess EXCEPT !.announcements = Append(@, NewAnnouncement(sess, ann, utcnow)) ]

\* create_post with the draft generate_post wrote
create_post(sess, announcement_id, utcnow) ==
    [ sess EXCEPT !.posts = Append(@, [ id |-> Len(sess.posts) + 1,
                                        announcement_id |-> announcement_id,
                                        content |-> "draft",
                                        version |-> 1,
                                        approved_by |-> None,
                                        approved_at |-> None,
                                        posted_at |-> None,
                                        linkedin_url |-> None,
                                        created_at |-> utcnow,
                                        updated_at |-> utcnow ]) ]

\* save_announcement: the session it leaves and the value it returns;
\* drafted tells whether generate_post returned a draft or raised
save_announcement(sess, ann, auto_draft, mad, nw, drafted) ==
    LET cutoff == nw \div HoursPerDay - mad[1]
        existing == check_duplicate(sess, ann.company_id, ann.person_name,
                                    DEDUP_THRESHOLD_HOURS, nw)
        saved == create_announcement(sess, ann, nw)
    IN  IF ann.person_name = "" THEN [ session |-> sess, ret |-> FALSE ]
        ELSE IF /\ mad # None /\ mad[1] # 0
                /\ ann.announcement_date # None
                /\ ann.announcement_date[1] < cutoff
             THEN [ session |-> sess, ret |-> FALSE ]
        ELSE IF existing # None THEN [ session |-> sess, ret |-> FALSE ]
        ELSE [ session |-> IF auto_draft /\ drafted
                           THEN create_post(saved, Len(saved.announcements),
                                            nw)
                           ELSE saved,
               ret |-> TRUE ]

-----------------------------------------------------------------------------
(* run_aggregation                                                          *)

\* [c for c in companies if company_filter.lower() in c['name'].lower()]
FilteredCompanies(cs, filter) ==
    Retain(cs,
           { k \in 1..Len(cs) :
               Contains(StrLower(cs[k].name), StrLower(filter)) },
           1)

\* the loop over the announcements from index i on: the session it leaves
\* and the counts new_count, dup_count; drafts holds the indices of the
\* announcements for which generate_post returns a draft
RECURSIVE SaveAll(_, _, _, _, _, _, _)
SaveAll(sess, announcements, i, days_back, nw, drafts, counts) ==
    IF i > Len(announcements) THEN [ session |-> sess, ret |-> counts ]
    ELSE LET r == save_announcement(sess, announcements[i], TRUE,
                                    Some(days_back), nw, i \in drafts)
         IN  SaveAll(r.session, announcements, i + 1, days_back, nw, drafts,
                     IF r.ret THEN <<counts[1] + 1, counts[2]>>
                     ELSE <<counts[1], counts[2] + 1>>)

\* run_aggregation once fetch_all has collected the announcements
SaveCollected(sess, collected, days_back, nw, drafts) ==
    [ all_announcements |-> collected ]
      @@ SaveAll(sess, unique(collected), 1, days_back, nw, drafts, <<0, 0>>)

\* the companies run_aggregation goes on with
Selected(cs, company_filter_) ==
    IF Truthy(company_filter_)
    THEN FilteredCompanies(cs, company_filter_[1]) ELSE cs

\* run_aggregation: the session it leaves and the tuple it returns;
\* all_announcements is what fetch_all collected on the way
run_aggregation(sess, cs, days_back, company_filter_, w, nw, drafts) ==
    IF Truthy(company_filter_) /\ Selected(cs, company_filter_) = <<>>
    THEN [ session |-> sess, ret |-> <<0, 0>>, all_announcements |-> <<>> ]
    ELSE SaveCollected(sess,
                       Collected(w, Selected(cs, company_filter_), nw),
                       days_back, nw, drafts)

-----------------------------------------------------------------------------
(* main                                                                     *)
(*                                                                         *)
(* pc follows the loop: "while" at its top, "try" in the try block until   *)
(* run_aggregation ends, "sleep" in time.sleep at the end of the try block, *)
(* "retry_sleep" in time.sleep in the handler of                            *)
(* Exception, "finally_continue", "finally_break" and "finally_raise" in   *)
(* the finally clause on the way to the next iteration, out of the loop    *)
(* and out of main with an exception, "stopped" after the loop and         *)
(* "raised" when an exception has left main.                               *)

\* every exception of a run is raised again
AfterException_raise_always(once_) == "finally_raise"

\* except Exception: raise with --once, else sleep and go on
AfterException(once_) == IF once_ THEN "finally_raise" ELSE "retry_sleep"

\* the end of the try block after run_aggregation returned
AfterRun(once_) == IF once_ THEN "finally_break" ELSE "sleep"

-----------------------------------------------------------------------------
(* The dashboard API and the database operations it calls                   *)
(*                                                                         *)
(* A handler gives the session it leaves and the HTTP status of its        *)
(* response.  A request body is a record of the JSON keys it carries.      *)

\* a row of a table with some columns assigned
Assigned(row, values) ==
    [ f \in DOMAIN row |-> IF f \in DOMAIN values THEN values[f] ELSE row[f] ]

update_announcement_status(sess, announcement_id, status, utcnow) ==
    IF announcement_id \in 1..Len(sess.announcements)
    THEN [ sess EXCEPT !.announcements[announcement_id] =
             Assigned(@, [ status |-> status, updated_at |-> utcnow ]) ]
    ELSE sess

\* setattr for every key of kwargs that is an attribute of the row
update_announcement(sess, announcement_id, kwargs, utcnow) ==
    IF announcement_id \in 1..Len(sess.announcements)
    THEN [ sess EXCEPT !.announcements[announcement_id] =
             Assigned(Assigned(@, kwargs), [ updated_at |-> utcnow ]) ]
    ELSE sess

\* the latest post of the announcement: the id of the post of the highest
\* version, 0 when the announcement has no post
get_post_for_announcement(sess, announcement_id) ==
    LET mine == { k \in 1..Len(sess.posts) :
                    sess.posts[k].announcement_id = announcement_id }
    IN  IF mine = {} THEN 0
        ELSE CHOOSE k \in mine :
               \A j \in mine :
                 \/ sess.posts[j].version < sess.posts[k].version
                 \/ sess.posts[j].version = sess.posts[k].version /\ k <= j

update_post_content(sess, post_id, content_, utcnow) ==
    IF post_id \in 1..Len(sess.posts)
    THEN [ sess EXCEPT !.posts[post_id] =
             Assigned(@, [ content |-> content_, version |-> @.version + 1,
                           updated_at |-> utcnow ]) ]
    ELSE sess

approve_post(sess, post_id, approved_by, utcnow) ==
    IF post_id \in 1..Len(sess.posts)
    THEN update_announcement_status(
             [ sess EXCEPT !.posts[post_id] =
                 Assigned(@, [ approved_by |-> Some(approved_by),
                               approved_at |-> Some(utcnow),
                               updated_at |-> utcnow ]) ],
             sess.posts[post_id].announcement_id, STATUS_APPROVED, utcnow)
    ELSE sess

mark_post_as_posted(sess, post_id, linkedin_url, utcnow) ==
    IF post_id \in 1..Len(sess.posts)
    THEN update_announcement_status(
             [ sess EXCEPT !.posts[post_id] =
                 Assigned(@, [ posted_at |-> Some(utcnow),
                               linkedin_url |-> linkedin_url,
                               updated_at |-> utcnow ]) ],
             sess.posts[post_id].announcement_id, STATUS_POSTED, utcnow)
    ELSE sess

\* data.get(key), with a default
Get(data, key, default) == IF key \in DOMAIN data THEN data[key] ELSE default

api_approve(sess, announcement_id, data, utcnow) ==
    LET approved_by == Get(data, "approved_by", "editor")
        post == get_post_for_announcement(sess, announcement_id)
    IN  [ session |-> IF post # 0
                      THEN approve_post(sess, post, approved_by, utcnow)
                      ELSE update_announcement_status(sess, announcement_id,
                                                      "approved", utcnow),
          ret |-> 200 ]

api_reject(sess, announcement_id, utcnow) ==
    [ session |-> update_announcement_status(sess, announcement_id,
                                             "rejected", utcnow),
      ret |-> 200 ]

api_mark_posted(sess, announcement_id, data, utcnow) ==
    LET linkedin_url == Get(data, "linkedin_url", None)
        post == get_post_for_announcement(sess, announcement_id)
    IN  [ session |-> IF post # 0
                      THEN mark_post_as_posted(sess, post, linkedin_url, utcnow)
                      ELSE update_announcement_status(sess, announcement_id,
                                                      "posted", utcnow),
          ret |-> 200 ]

api_update_post(sess, post_id, data, utcnow) ==
    LET content_ == Get(data, "content", "")
    IN  IF content_ = "" THEN [ session |-> sess, ret |-> 400 ]
        ELSE IF post_id \in 1..Len(sess.posts)
        THEN [ session |-> update_post_content(sess, post_id, content_, utcnow),
               ret |-> 200 ]
        ELSE [ session |-> sess, ret |-> 404 ]

\* generate_post writes new_content, or raises and the handler answers 500
api_regenerate_post(sess, post_id, new_content, utcnow) ==
    IF post_id \notin 1..Len(sess.posts) THEN [ session |-> sess, ret |-> 404 ]
    ELSE IF new_content = None THEN [ session |-> sess, ret |-> 500 ]
    ELSE [ session |-> update_post_content(sess, post_id, new_content[1],
                                           utcnow),
           ret |-> 200 ]

allowed_fields ==
    { "person_name", "new_title", "previous_title", "previous_company" }

\* every key of the request body is written to the row
api_update_announcement_any_field(sess, announcement_id, data, utcnow) ==
    IF DOMAIN data = {} THEN [ session |-> sess, ret |-> 400 ]
    ELSE IF announcement_id \in 1..Len(sess.announcements)
    THEN [ session |-> update_announcement(sess, announcement_id, data, utcnow),
           ret |-> 200 ]
    ELSE [ session |-> sess, ret |-> 404 ]

api_update_announcement(sess, announcement_id, data, utcnow) ==
    LET update_data == [ k \in DOMAIN data \cap allowed_fields |-> data[k] ]
    IN  IF DOMAIN update_data = {} THEN [ session |-> sess, ret |-> 400 ]
        ELSE IF announcement_id \in 1..Len(sess.announcements)
        THEN [ session |-> update_announcement(sess, announcement_id,
                                               update_data, utcnow),
               ret |-> 200 ]
        ELSE [ session |-> sess, ret |-> 404 ]

-----------------------------------------------------------------------------
(* Bounded inputs                                                           *)

\* the sequences of at most n elements of W
SeqsUpTo(W, n) == UNION { [1..k -> W] : k \in 0..n }

\* the texts of at most n tokens of W, single-spaced
Texts(W, n) == { Join(ws) : ws \in SeqsUpTo(W, n) }

\* is_executive_move: keywords alone and inside longer words, titles alone,
\* in other case and inside longer words
MaxTitleWords == 3

ClassifyWords == { "Acme", "promotes", "Promoted", "surnames", "new",
                   "VP", "VPs", "ceo", "Director" }

\* the headlines the specification quotes for is_executive_move
SpecHeadlines == { "Tyson Foods promotes John Smith to VP of Operations",
                   "Tyson Foods reports record quarterly earnings" }

ClassifyTitles == Texts(ClassifyWords, MaxTitleWords) \cup SpecHeadlines
ClassifyContents == { "", "ceo", "named a VP" }

\* _is_valid_person_name: a first word, middle words, a last word
MaxMiddleWords == 3

FirstWords == { "John", "New", "JOHN", "President", "Coca" }
MiddleWords == { "Lee", "of", "their", "Foods" }
LastWords == { "Smith", "News", "Promoted", "Trump", "Cola", "CEO" }

SpecNames == { "", "John", "Supermarket News", "New CEO" }

ValidatorNames ==
    { Join(<<f>> \o m \o <<l>>) :
        f \in FirstWords, m \in SeqsUpTo(MiddleWords, MaxMiddleWords), l \in LastWords }
    \cup SpecNames

\* extract_person_name: names, a publication, the words the patterns key on
MaxNameTokens == 4

NameTokens == { "Mary Lee", "John Smith", "Acme News", "joins", "names", "CEO" }

SpecSentences ==
    { "Tyson Foods announces John Smith has been appointed Chief Financial Officer." }

NameTexts == Texts(NameTokens, MaxNameTokens) \cup SpecSentences

\* extract_title: a compound title, short titles in two cases and inside a
\* longer word, a connective, and a filler longer than the context window
MaxTitleTokens == 4

Filler == "internationally recognised supply chain veteran and former"

TitleTokens == { "Senior Vice President", "VP", "vp", "VPs", "to", "names", Filler }

TitleTexts == Texts(TitleTokens, MaxTitleTokens)

\* extract_action: every keyword group, one keyword inside a longer word
MaxActionWords == 3

ActionWords == { "promoted", "Appoints", "tapped", "named", "hires",
                 "announces", "surnames", "board", "Appointment" }

SpecActionTexts == { "He was promoted and later named to the board" }

ActionTexts == Texts(ActionWords, MaxActionWords) \cup SpecActionTexts

\* parse_article
MaxHeadlineTokens == 3

HeadlineTokens == { "Acme", "names", "John Smith", "CEO" }

Headlines == Texts(HeadlineTokens, MaxHeadlineTokens)

\* no body, and a body with markup, a run of spaces and a date of its own
Bodies ==
    { "",
      "<p>Acme Foods appointed <b>Mary Lee</b> as  VP.</p><p>Thu, 22 Oct 2026 12:00:00</p>" }

PublishedDates == DOMAIN DateutilParse \cup DateutilOverflow \cup { "", "not a date" }

MaxAgeDays == { None, Some(0), Some(7) }

\* datetime.now(): 2026-11-01 12:00
NowValues == { Datetime(32, 12, None).wall }

\* parse_article on articles about as long as the stored text may be: the
\* body is a marked-up sentence of 37 characters and filler, which with the
\* space after the title run from short of RAW_TEXT_CHARS to past it
MaxOverrun == 8

RECURSIVE Repeat(_, _)
\* s * n
Repeat(s, n) == IF n = 0 THEN ""
                ELSE IF n = 1 THEN s
                ELSE Repeat(s, n \div 2) \o Repeat(s, n - n \div 2)

LongTitles == { "", "Acme", "names John Smith CEO" }

LongBodies ==
    { "<p>Acme Foods appointed <b>Mary Lee</b> as  VP.</p><p>"
      \o SubSeq(Repeat("lorem ipsum dolor ", RAW_TEXT_CHARS), 1, n) \o "</p>" :
        n \in (RAW_TEXT_CHARS - 45 - MaxOverrun)..(RAW_TEXT_CHARS - 45 + MaxOverrun) }

\* find_company_in_text: tracked companies as get_companies_list builds them,
\* one as the specification writes it, without aliases, and one imported by
\* import_from_json from an entry whose alias list holds an empty string;
\* texts that name none, one or several of them, by name or by alias, in
\* either case
MaxCompanies == 3

TrackedCompanies ==
    { [id |-> 1, name |-> "Tyson Foods", aliases |-> <<"Tyson", "TSN">>],
      [id |-> 2, name |-> "Cargill"],
      [id |-> 3, name |-> "JBS USA", aliases |-> <<"JBS", "Pilgrim">>],
      [id |-> 4, name |-> "Kraft Heinz", aliases |-> <<>>],
      [id |-> 5, name |-> "Hormel", aliases |-> <<"">>] }

CompanyLists ==
    { cs \in SeqsUpTo(TrackedCompanies, MaxCompanies) :
        \A i, j \in 1..Len(cs) : cs[i] = cs[j] => i = j }

CompanyTexts ==
    { "",
      "Mary Lee joins Tyson Foods as VP of Sales",
      "TYSON veteran John Smith named CEO of cargill",
      "Cargill hires John Smith from JBS",
      "Kraft Heinz and Pilgrim name new directors",
      "Acme Foods appoints Mary Lee CFO",
      "Heinz promotes Mary Lee; tsn ticker unchanged" }

\* fetch_all: two tracked companies in either order; an article that names
\* both, the same article without a link, and an article about one of them
BatchCompanyLists ==
    { cs \in CompanyLists :
        \A k \in 1..Len(cs) : cs[k].name \in { "Tyson Foods", "Cargill" } }

JoinsArticle ==
    [ title |-> "Cargill veteran John Smith joins Tyson Foods as CFO",
      content |-> "", link |-> "https://news.example.com/1",
      published |-> "", source_name |-> "Google News" ]

UnlinkedArticle == [ JoinsArticle EXCEPT !.link = "" ]

NamesArticle ==
    [ title |-> "Cargill names Mary Lee CEO",
      content |-> "<p>Mary Lee was named CEO.</p>",
      link |-> "https://news.example.com/2",
      published |-> "Sun, 25 Oct 2026 18:00:00 GMT",
      source_name |-> "Google News" ]

\* what the six Google News queries about one company return
GoogleResults ==
    { << <<>>, <<>>, <<>>, <<>>, <<>>, <<>> >>,
      << <<JoinsArticle>>, <<JoinsArticle>>, <<>>, <<>>, <<>>, <<>> >>,
      << <<UnlinkedArticle>>, <<>>, <<UnlinkedArticle>>, <<>>, <<>>, <<>> >>,
      << <<NamesArticle, JoinsArticle>>, <<>>, <<>>, <<>>, <<>>,
         <<NamesArticle>> >> }

\* what NewsAPI, the company newsroom and PR Newswire return for one company
OtherResults ==
    { [ newsapi |-> <<>>, newsroom |-> <<>>, prnewswire |-> <<>> ],
      [ newsapi |-> <<NamesArticle>>, newsroom |-> <<>>,
        prnewswire |-> <<>> ],
      [ newsapi |-> <<>>, newsroom |-> <<UnlinkedArticle>>,
        prnewswire |-> <<JoinsArticle>> ] }

IndustryResults == { <<>>, <<UnlinkedArticle>>, <<JoinsArticle, NamesArticle>> }

Webs ==
    { [ industry |-> ind,
        google |-> [ c \in DOMAIN g |-> g[c] ],
        newsapi |-> [ c \in DOMAIN o |-> o[c].newsapi ],
        newsroom |-> [ c \in DOMAIN o |-> o[c].newsroom ],
        prnewswire |-> [ c \in DOMAIN o |-> o[c].prnewswire ] ] :
        ind \in IndustryResults,
        g \in [ { "Tyson Foods", "Cargill" } -> GoogleResults ],
        o \in [ { "Tyson Foods", "Cargill" } -> OtherResults ] }

\* save_announcement: announcements of the aggregator about one person, a
\* person whose name contains that name, and without a name, for two
\* companies, undated and dated long before the run; a database that is empty
\* or holds one announcement whose name was edited; a clock that advances in
\* half windows
MaxRows == 2
MaxTicks == 3

AnnData ==
    { [ person_name |-> n, new_title |-> Some("CFO"), action |-> "named",
        raw_text |-> "", source_url |-> Some(""),
        source_name |-> Some("PR Newswire"), announcement_date |-> d,
        company_id |-> c, company_name |-> "" ] :
        n \in { "John Smith", "John Smithson", "" },
        c \in { 1, 2 },
        d \in { None, Some(DateOf(Datetime(22, 12, None))) } }

EditedRows ==
    { [ id |-> 1, company_id |-> 1, person_name |-> "Dr. john smith",
        new_title |-> Some("CFO"), announcement_date |-> None,
        source_url |-> Some(""), source_name |-> Some("PR Newswire"),
        previous_title |-> None, previous_company |-> None,
        raw_text |-> "", status |-> STATUS_APPROVED, created_at |-> nw,
        updated_at |-> nw ] :
        nw \in NowValues }

Sessions ==
    { [ announcements |-> rows, posts |-> <<>> ] :
        rows \in { <<>> } \cup { <<row>> : row \in EditedRows } }

Advance == { DEDUP_THRESHOLD_HOURS \div 2 }

\* repeated parse_article calls: up to MaxParsers instances, an article
\* published shortly after the cutoff of a seven-day look-back and an undated
\* one, with and without look-back, while the clock advances
MaxParsers == 2

RepeatedArticles ==
    { [ title |-> "Acme names John Smith CEO", content |-> "",
        published |-> "Sun, 25 Oct 2026 18:00:00 GMT" ],
      [ title |-> "Mary Lee named CFO", content |-> "", published |-> "" ] }

\* the arguments of the calls: the dated article with and without look-back,
\* the undated one without
RepeatedCalls ==
    { call \in [ article : RepeatedArticles, max_age_days : { None, Some(7) } ] :
        call.article.published = "" => call.max_age_days = None }

\* the dashboard: one announcement of the aggregator, with or without a
\* draft post; requests about it and about an announcement and a post that
\* do not exist; bodies with and without the keys the handlers read, and with
\* keys they do not allow
MaxVersion == 2
MaxRequestTicks == 2

DashboardAnnData ==
    { ann \in AnnData : /\ ann.person_name = "John Smith"
                        /\ ann.company_id = 1
                        /\ ann.announcement_date = None }

AnnouncementIds == { 1, 2 }
PostIds == { 1, 2 }

NoKeys == [ k \in {} |-> "" ]

ApproveBodies == { NoKeys, [ approved_by |-> "amy" ] }

PostedBodies ==
    { NoKeys, [ linkedin_url |-> Some("https://linkedin.example.com/p/1") ] }

UpdatePostBodies == { NoKeys, [ content |-> "edited" ] }

GeneratedPosts == { None, Some("regenerated") }

UpdateAnnouncementBodies ==
    { NoKeys,
      [ status |-> "archived" ],
      [ person_name |-> "Jane Roe", status |-> "archived" ],
      [ new_title |-> Some("COO"), previous_title |-> Some("CFO"),
        previous_company |-> Some("Acme Foods") ] }

\* run_aggregation: the tracked companies in either order, with and without
\* a --company filter that selects one or none of them; sources that return
\* nothing, an undated article that names both companies, with and without a
\* link, and an article dated a week before the run; a look-back of three
\* days and of seven; a database that is empty or holds an announcement of
\* the last hours
RunWebs ==
    { w \in Webs :
        /\ \A c \in DOMAIN w.newsapi :
             w.newsapi[c] = <<>> /\ w.newsroom[c] = <<>> /\ w.prnewswire[c] = <<>>
        /\ \A q \in 1..QueryCount : w.google["Cargill"][q] = <<>> }

DaysBack == { Some(3), Some(7) }

\* generate_post may fail for any of the first MaxDrafts announcements
MaxDrafts == 2

CompanyFilters == { None, Some("tyson"), Some("acme") }

\* main: a database with no, one or two tracked companies; with and without
\* --once; with and without a --company filter that selects no company;
\* sources that return nothing or one article about an executive move;
\* generate_post working or failing during a run; the runs are counted up to
\* MaxRuns
MaxRuns == 2

MainWebs ==
    { w \in RunWebs :
        /\ w.industry \in { <<>>, <<UnlinkedArticle>> }
        /\ \A q \in 1..QueryCount : w.google["Tyson Foods"][q] = <<>> }

MainFilters == { None, Some("acme") }

MainDrafts == { {}, 1..MaxDrafts }

-----------------------------------------------------------------------------
(* The calls                                                                *)

NoArticle == /\ title = "" /\ content = "" /\ published_date = ""
             /\ source_url = None /\ source_name = None
             /\ max_age_days = None /\ now = 0

InitClassify ==
    /\ title \in ClassifyTitles
    /\ content \in ClassifyContents
    /\ published_date = "" /\ source_url = None /\ source_name = None
    /\ max_age_days = None /\ now = 0
    /\ web = <<>> /\ all_announcements = <<>>
    /\ session = <<>> /\ ann_data = <<>>
    /\ parsers = <<>> /\ instance = 0 /\ earlier = <<>>
    /\ once = FALSE /\ company_filter = None /\ runs = 0
    /\ companies = <<>>
    /\ text = "" /\ name = ""
    /\ pc = "is_executive_move" /\ ret = None

CallIsExecutiveMove ==
    /\ pc = "is_executive_move"
    /\ ret' = Some(is_executive_move(title, content))
    /\ pc' = "done"
    /\ UNCHANGED <<title, content, published_date, source_url, source_name,
                   max_age_days, now, text, name, companies, web,
                   all_announcements, session, ann_data, parsers, instance,
                   earlier, once, company_filter, runs>>

NextClassify == CallIsExecutiveMove

SpecClassify == InitClassify /\ [][NextClassify]_vars

InitValidate ==
    /\ NoArticle
    /\ text = ""
    /\ name \in ValidatorNames
    /\ web = <<>> /\ all_announcements = <<>>
    /\ session = <<>> /\ ann_data = <<>>
    /\ parsers = <<>> /\ instance = 0 /\ earlier = <<>>
    /\ once = FALSE /\ company_filter = None /\ runs = 0
    /\ companies = <<>>
    /\ pc = "_is_valid_person_name" /\ ret = None

CallIsValidPersonName ==
    /\ pc = "_is_valid_person_name"
    /\ ret' = Some(_is_valid_person_name(name))
    /\ pc' = "done"
    /\ UNCHANGED <<title, content, published_date, source_url, source_name,
                   max_age_days, now, text, name, companies, web,
                   all_announcements, session, ann_data, parsers, instance,
                   earlier, once, company_filter, runs>>

NextValidate == CallIsValidPersonName

SpecValidate == InitValidate /\ [][NextValidate]_vars

InitName ==
    /\ NoArticle
    /\ text \in NameTexts
    /\ name = ""
    /\ web = <<>> /\ all_announcements = <<>>
    /\ session = <<>> /\ ann_data = <<>>
    /\ parsers = <<>> /\ instance = 0 /\ earlier = <<>>
    /\ once = FALSE /\ company_filter = None /\ runs = 0
    /\ companies = <<>>
    /\ pc = "extract_person_name" /\ ret = None

CallExtractPersonName ==
    /\ pc = "extract_person_name"
    /\ ret' = extract_person_name(text)
    /\ pc' = "done"
    /\ UNCHANGED <<title, content, published_date, source_url, source_name,
                   max_age_days, now, text, name, companies, web,
                   all_announcements, session, ann_data, parsers, instance,
                   earlier, once, company_filter, runs>>

NextName == CallExtractPersonName

SpecName == InitName /\ [][NextName]_vars

InitTitle ==
    /\ NoArticle
    /\ text \in TitleTexts
    /\ name = ""
    /\ web = <<>> /\ all_announcements = <<>>
    /\ session = <<>> /\ ann_data = <<>>
    /\ parsers = <<>> /\ instance = 0 /\ earlier = <<>>
    /\ once = FALSE /\ company_filter = None /\ runs = 0
    /\ companies = <<>>
    /\ pc = "extract_title" /\ ret = None

CallExtractTitle ==
    /\ pc = "extract_title"
    /\ ret' = extract_title(text)
    /\ pc' = "done"
    /\ UNCHANGED <<title, content, published_date, source_url, source_name,
                   max_age_days, now, text, name, companies, web,
                   all_announcements, session, ann_data, parsers, instance,
                   earlier, once, company_filter, runs>>

NextTitle == CallExtractTitle

SpecTitle == InitTitle /\ [][NextTitle]_vars

InitAction ==
    /\ NoArticle
    /\ text \in ActionTexts
    /\ name = ""
    /\ web = <<>> /\ all_announcements = <<>>
    /\ session = <<>> /\ ann_data = <<>>
    /\ parsers = <<>> /\ instance = 0 /\ earlier = <<>>
    /\ once = FALSE /\ company_filter = None /\ runs = 0
    /\ companies = <<>>
    /\ pc = "extract_action" /\ ret = None

CallExtractAction ==
    /\ pc = "extract_action"
    /\ ret' = Some(extract_action(text))
    /\ pc' = "done"
    /\ UNCHANGED <<title, content, published_date, source_url, source_name,
                   max_age_days, now, text, name, companies, web,
                   all_announcements, session, ann_data, parsers, instance,
                   earlier, once, company_filter, runs>>

NextAction == CallExtractAction

SpecAction == InitAction /\ [][NextAction]_vars

Init ==
    /\ title \in Headlines
    /\ content \in Bodies
    /\ published_date \in PublishedDates
    /\ source_url = Some("https://news.example.com/a")
    /\ source_name = Some("PR Newswire")
    /\ max_age_days \in MaxAgeDays
    /\ now \in NowValues
    /\ web = <<>> /\ all_announcements = <<>>
    /\ session = <<>> /\ ann_data = <<>>
    /\ parsers = <<>> /\ instance = 0 /\ earlier = <<>>
    /\ once = FALSE /\ company_filter = None /\ runs = 0
    /\ companies = <<>>
    /\ text = "" /\ name = ""
    /\ pc = "parse_article" /\ ret = None

CallParseArticle ==
    /\ pc = "parse_article"
    /\ ret' = parse_article(title, content, published_date, source_url,
                            source_name, max_age_days, now)
    /\ pc' = "done"
    /\ UNCHANGED <<title, content, published_date, source_url, source_name,
                   max_age_days, now, text, name, companies, web,
                   all_announcements, session, ann_data, parsers, instance,
                   earlier, once, company_filter, runs>>

Next == CallParseArticle

Spec == Init /\ [][Next]_vars

InitLong ==
    /\ title \in LongTitles
    /\ content \in LongBodies
    /\ published_date \in { "", "Sun, 25 Oct 2026 18:00:00 GMT" }
    /\ source_url = Some("https://news.example.com/a")
    /\ source_name = Some("PR Newswire")
    /\ max_age_days = None
    /\ now \in NowValues
    /\ web = <<>> /\ all_announcements = <<>>
    /\ session = <<>> /\ ann_data = <<>>
    /\ parsers = <<>> /\ instance = 0 /\ earlier = <<>>
    /\ once = FALSE /\ company_filter = None /\ runs = 0
    /\ companies = <<>>
    /\ text = "" /\ name = ""
    /\ pc = "parse_article" /\ ret = None

SpecLong == InitLong /\ [][Next]_vars

InitCompany ==
    /\ NoArticle
    /\ text \in CompanyTexts
    /\ name = ""
    /\ companies \in CompanyLists
    /\ web = <<>> /\ all_announcements = <<>>
    /\ session = <<>> /\ ann_data = <<>>
    /\ parsers = <<>> /\ instance = 0 /\ earlier = <<>>
    /\ once = FALSE /\ company_filter = None /\ runs = 0
    /\ pc = "find_company_in_text" /\ ret = None

CallFindCompanyInText ==
    /\ pc = "find_company_in_text"
    /\ ret' = find_company_in_text(text, companies)
    /\ pc' = "done"
    /\ UNCHANGED <<title, content, published_date, source_url, source_name,
                   max_age_days, now, text, name, companies, web,
                   all_announcements, session, ann_data, parsers, instance,
                   earlier, once, company_filter, runs>>

NextCompany == CallFindCompanyInText

SpecCompany == InitCompany /\ [][NextCompany]_vars

InitBatch ==
    /\ NoArticle
    /\ text = "" /\ name = ""
    /\ companies \in BatchCompanyLists
    /\ web \in Webs
    /\ all_announcements = <<>>
    /\ session = <<>> /\ ann_data = <<>>
    /\ parsers = <<>> /\ instance = 0 /\ earlier = <<>>
    /\ once = FALSE /\ company_filter = None /\ runs = 0
    /\ pc = "fetch_all" /\ ret = None

CallFetchAll ==
    /\ pc = "fetch_all"
    /\ all_announcements' = Collected(web, companies, now)
    /\ ret' = unique(all_announcements')
    /\ pc' = "done"
    /\ UNCHANGED <<title, content, published_date, source_url, source_name,
                   max_age_days, now, text, name, companies, web, session,
                   ann_data, parsers, instance, earlier,
                   once, company_filter, runs>>

NextBatch == CallFetchAll

SpecBatch == InitBatch /\ [][NextBatch]_vars

InitSave ==
    /\ title = "" /\ content = "" /\ published_date = ""
    /\ source_url = None /\ source_name = None
    /\ max_age_days \in { None, Some(0), Some(7) }
    /\ now \in NowValues
    /\ text = "" /\ name = ""
    /\ companies = <<>>
    /\ web = <<>> /\ all_announcements = <<>>
    /\ session \in Sessions
    /\ ann_data = <<>>
    /\ parsers = <<>> /\ instance = 0 /\ earlier = <<>>
    /\ once = FALSE /\ company_filter = None /\ runs = 0
    /\ pc = "save_announcement" /\ ret = None

CallSaveAnnouncement ==
    /\ pc = "save_announcement"
    /\ Len(session.announcements) < MaxRows
    /\ \E ann \in AnnData, drafted \in BOOLEAN :
         LET r == save_announcement(session, ann, TRUE, max_age_days, now,
                                    drafted)
         IN  /\ ann_data' = ann
             /\ session' = r.session
             /\ ret' = r.ret
    /\ pc' = "done"
    /\ UNCHANGED <<title, content, published_date, source_url, source_name,
                   max_age_days, now, text, name, companies, web,
                   all_announcements, parsers, instance, earlier,
                   once, company_filter, runs>>

\* time passes until run_aggregation saves its next announcement
NextAnnouncement ==
    /\ pc = "done"
    /\ \E dt \in Advance \cup { 0 } :
         /\ now + dt <= Min(NowValues) + MaxTicks * Min(Advance)
         /\ now' = now + dt
    /\ pc' = "save_announcement"
    /\ UNCHANGED <<title, content, published_date, source_url, source_name,
                   max_age_days, text, name, companies, web,
                   all_announcements, session, ann_data, parsers, instance, earlier,
                   once, company_filter, runs,
                   ret>>

NextSave == CallSaveAnnouncement \/ NextAnnouncement

SpecSave == InitSave /\ [][NextSave]_vars

InitRepeat ==
    /\ title = "" /\ content = "" /\ published_date = ""
    /\ source_url = None /\ source_name = None
    /\ max_age_days = None
    /\ now \in NowValues
    /\ text = "" /\ name = ""
    /\ companies = <<>>
    /\ web = <<>> /\ all_announcements = <<>>
    /\ session = <<>> /\ ann_data = <<>>
    /\ parsers = <<ArticleParser>>
    /\ instance = 0
    /\ earlier = None
    /\ once = FALSE /\ company_filter = None /\ runs = 0
    /\ pc = "idle" /\ ret = None

\* ArticleParser()
NewArticleParser ==
    /\ Len(parsers) < MaxParsers
    /\ parsers' = Append(parsers, ArticleParser)
    /\ pc' = "idle"
    /\ UNCHANGED <<title, content, published_date, source_url, source_name,
                   max_age_days, now, text, name, companies, web,
                   all_announcements, session, ann_data, instance, earlier,
                   once, company_filter, runs,
                   ret>>

\* the call on record: the instance, the arguments, the clock and the result
\* of the call just made, and whether a call with other arguments followed
ThisCall(i, call, result) ==
    [ instance |-> i, article |-> call.article,
      max_age_days |-> call.max_age_days,
      now |-> now, result |-> result, others |-> FALSE ]

\* parser.parse_article(...) on instance i; the first call, or a later one
\* instead, is put on record
CallParseArticleOn ==
    /\ \E i \in 1..Len(parsers), call \in RepeatedCalls :
         \E r \in { parse_article_on(parsers[i], call.article.title,
                                     call.article.content,
                                     call.article.published,
                                     Some("https://news.example.com/a"),
                                     Some("PR Newswire"), call.max_age_days,
                                     now) } :
           /\ parsers' = [ parsers EXCEPT ![i] = r.self ]
           /\ instance' = i
           /\ ret' = r.result
           /\ title' = call.article.title
           /\ content' = call.article.content
           /\ published_date' = call.article.published
           /\ max_age_days' = call.max_age_days
           /\ \/ earlier = None /\ earlier' = None
              \/ earlier = None /\ earlier' = Some(ThisCall(i, call, r.result))
              \/ /\ earlier # None
                 /\ earlier' =
                      Some([ earlier[1] EXCEPT !.others =
                               \/ @
                               \/ call.article # earlier[1].article
                               \/ call.max_age_days # earlier[1].max_age_days ])
    /\ source_url' = Some("https://news.example.com/a")
    /\ source_name' = Some("PR Newswire")
    /\ pc' = "done"
    /\ UNCHANGED <<now, text, name, companies, web, all_announcements,
                   session, ann_data,
                   once, company_filter, runs>>

\* time passes between two calls
ClockAdvances ==
    /\ \E dt \in Advance :
         /\ now + dt <= Min(NowValues) + MaxTicks * Min(Advance)
         /\ now' = now + dt
    /\ pc' = "idle"
    /\ UNCHANGED <<title, content, published_date, source_url, source_name,
                   max_age_days, text, name, companies, web,
                   all_announcements, session, ann_data, parsers, instance, earlier,
                   once, company_filter, runs,
                   ret>>

NextRepeat == NewArticleParser \/ CallParseArticleOn \/ ClockAdvances

SpecRepeat == InitRepeat /\ [][NextRepeat]_vars

\* the dashboard serves requests once the aggregator has stored an
\* announcement
DashboardReady ==
    { "save_announcement_done", "api_approve", "api_reject", "api_mark_posted",
      "api_update_post", "api_regenerate_post", "api_update_announcement" }

InitDashboard ==
    /\ title = "" /\ content = "" /\ published_date = ""
    /\ source_url = None /\ source_name = None
    /\ max_age_days = None
    /\ now \in NowValues
    /\ text = "" /\ name = ""
    /\ companies = <<>>
    /\ web = <<>> /\ all_announcements = <<>>
    /\ session = [ announcements |-> <<>>, posts |-> <<>> ]
    /\ ann_data = <<>>
    /\ parsers = <<>> /\ instance = 0 /\ earlier = <<>>
    /\ once = FALSE /\ company_filter = None /\ runs = 0
    /\ pc = "save_announcement" /\ ret = None

StoreForDashboard ==
    /\ pc = "save_announcement"
    /\ \E ann \in DashboardAnnData, drafted \in BOOLEAN :
         LET r == save_announcement(session, ann, TRUE, max_age_days, now,
                                    drafted)
         IN  /\ ann_data' = ann
             /\ session' = r.session
             /\ ret' = Some(r.ret)
    /\ pc' = "save_announcement_done"
    /\ UNCHANGED <<title, content, published_date, source_url, source_name,
                   max_age_days, now, text, name, companies, web,
                   all_announcements, parsers, instance, earlier,
                   once, company_filter, runs>>

CallApiApprove ==
    /\ pc \in DashboardReady
    /\ \E announcement_id \in AnnouncementIds, data \in ApproveBodies :
         LET r == api_approve(session, announcement_id, data, now)
         IN  session' = r.session /\ ret' = Some(r.ret)
    /\ pc' = "api_approve"
    /\ UNCHANGED <<title, content, published_date, source_url, source_name,
                   max_age_days, now, text, name, companies, web,
                   all_announcements, ann_data, parsers, instance, earlier,
                   once, company_filter, runs>>

CallApiReject ==
    /\ pc \in DashboardReady
    /\ \E announcement_id \in AnnouncementIds :
         LET r == api_reject(session, announcement_id, now)
         IN  session' = r.session /\ ret' = Some(r.ret)
    /\ pc' = "api_reject"
    /\ UNCHANGED <<title, content, published_date, source_url, source_name,
                   max_age_days, now, text, name, companies, web,
                   all_announcements, ann_data, parsers, instance, earlier,
                   once, company_filter, runs>>

CallApiMarkPosted ==
    /\ pc \in DashboardReady
    /\ \E announcement_id \in AnnouncementIds, data \in PostedBodies :
         LET r == api_mark_posted(session, announcement_id, data, now)
         IN  session' = r.session /\ ret' = Some(r.ret)
    /\ pc' = "api_mark_posted"
    /\ UNCHANGED <<title, content, published_date, source_url, source_name,
                   max_age_days, now, text, name, companies, web,
                   all_announcements, ann_data, parsers, instance, earlier,
                   once, company_filter, runs>>

CallApiUpdatePost ==
    /\ pc \in DashboardReady
    /\ \A k \in 1..Len(session.posts) : session.posts[k].version < MaxVersion
    /\ \E post_id \in PostIds, data \in UpdatePostBodies :
         LET r == api_update_post(session, post_id, data, now)
         IN  session' = r.session /\ ret' = Some(r.ret)
    /\ pc' = "api_update_post"
    /\ UNCHANGED <<title, content, published_date, source_url, source_name,
                   max_age_days, now, text, name, companies, web,
                   all_announcements, ann_data, parsers, instance, earlier,
                   once, company_filter, runs>>

CallApiRegeneratePost ==
    /\ pc \in DashboardReady
    /\ \A k \in 1..Len(session.posts) : session.posts[k].version < MaxVersion
    /\ \E post_id \in PostIds, new_content \in GeneratedPosts :
         LET r == api_regenerate_post(session, post_id, new_content, now)
         IN  session' = r.session /\ ret' = Some(r.ret)
    /\ pc' = "api_regenerate_post"
    /\ UNCHANGED <<title, content, published_date, source_url, source_name,
                   max_age_days, now, text, name, companies, web,
                   all_announcements, ann_data, parsers, instance, earlier,
                   once, company_filter, runs>>

CallApiUpdateAnnouncement ==
    /\ pc \in DashboardReady
    /\ \E announcement_id \in AnnouncementIds, data \in UpdateAnnouncementBodies :
         LET r == api_update_announcement(session, announcement_id, data, now)
         IN  session' = r.session /\ ret' = Some(r.ret)
    /\ pc' = "api_update_announcement"
    /\ UNCHANGED <<title, content, published_date, source_url, source_name,
                   max_age_days, now, text, name, companies, web,
                   all_announcements, ann_data, parsers, instance, earlier,
                   once, company_filter, runs>>

\* time passes between two requests
DashboardClock ==
    /\ pc \in DashboardReady
    /\ now < Min(NowValues) + MaxRequestTicks
    /\ now' = now + 1
    /\ UNCHANGED <<title, content, published_date, source_url, source_name,
                   max_age_days, text, name, companies, web,
                   all_announcements, session, ann_data, parsers, instance,
                   earlier, once, company_filter, runs, pc, ret>>

NextDashboard ==
    \/ StoreForDashboard
    \/ CallApiApprove
    \/ CallApiReject
    \/ CallApiMarkPosted
    \/ CallApiUpdatePost
    \/ CallApiRegeneratePost
    \/ CallApiUpdateAnnouncement
    \/ DashboardClock

SpecDashboard == InitDashboard /\ [][NextDashboard]_vars

InitRun ==
    /\ title = "" /\ content = "" /\ published_date = ""
    /\ source_url = None /\ source_name = None
    /\ max_age_days \in DaysBack
    /\ now \in NowValues
    /\ text = "" /\ name = ""
    /\ companies \in BatchCompanyLists
    /\ web \in RunWebs
    /\ all_announcements = <<>>
    /\ session \in Sessions
    /\ ann_data = <<>>
    /\ parsers = <<>> /\ instance = 0 /\ earlier = <<>>
    /\ once = FALSE /\ company_filter \in CompanyFilters /\ runs = 0
    /\ pc = "run_aggregation" /\ ret = None

CallRunAggregation ==
    /\ pc = "run_aggregation"
    /\ \E outcome \in
           UNION { { run_aggregation(session, companies, max_age_days[1],
                                     company_filter, web, now, drafts) } :
                   drafts \in SUBSET (1..MaxDrafts) } :
         /\ all_announcements' = outcome.all_announcements
         /\ session' = outcome.session
         /\ ret' = outcome.ret
    /\ pc' = "done"
    /\ UNCHANGED <<title, content, published_date, source_url, source_name,
                   max_age_days, now, text, name, companies, web, ann_data,
                   parsers, instance, earlier, once, company_filter, runs>>

NextRun == CallRunAggregation

SpecRun == InitRun /\ [][NextRun]_vars

InitMain ==
    /\ title = "" /\ content = "" /\ published_date = ""
    /\ source_url = None /\ source_name = None
    /\ max_age_days = Some(7)
    /\ now \in NowValues
    /\ text = "" /\ name = ""
    /\ companies \in BatchCompanyLists
    /\ web = <<>> /\ all_announcements = <<>>
    /\ session = [ announcements |-> <<>>, posts |-> <<>> ]
    /\ ann_data = <<>>
    /\ parsers = <<>> /\ instance = 0 /\ earlier = <<>>
    /\ once \in BOOLEAN /\ company_filter \in MainFilters /\ runs = 0
    /\ pc = "while" /\ ret = None

\* session = get_session(), and the try block is entered
MainEnter ==
    /\ pc = "while"
    /\ runs' = IF runs < MaxRuns THEN runs + 1 ELSE runs
    /\ pc' = "try"
    /\ UNCHANGED <<title, content, published_date, source_url, source_name,
                   max_age_days, now, text, name, companies, web,
                   all_announcements, session, ann_data, parsers, instance,
                   earlier, once, company_filter, ret>>

\* get_companies_from_db returns no company
MainNoCompanies ==
    /\ pc = "try" /\ companies = <<>>
    /\ pc' = "finally_break"
    /\ ret' = None
    /\ UNCHANGED <<title, content, published_date, source_url, source_name,
                   max_age_days, now, text, name, companies, web,
                   all_announcements, session, ann_data, parsers, instance,
                   earlier, once, company_filter, runs>>

\* run_aggregation returns
MainRunReturns ==
    /\ pc = "try" /\ companies # <<>>
    /\ \E w \in MainWebs, drafts \in MainDrafts :
         \E outcome \in { run_aggregation(session, companies, max_age_days[1],
                                          company_filter, w, now, drafts) } :
           /\ web' = w
           /\ all_announcements' = outcome.all_announcements
           /\ session' = outcome.session
           /\ ret' = Some(outcome.ret)
    /\ pc' = AfterRun(once)
    /\ UNCHANGED <<title, content, published_date, source_url, source_name,
                   max_age_days, now, text, name, companies, ann_data, parsers,
                   instance, earlier, once, company_filter, runs>>

\* an exception leaves run_aggregation while it fetches
MainRunRaises ==
    /\ pc = "try" /\ companies # <<>>
    /\ ret' = Raises("Exception")
    /\ pc' = AfterException(once)
    /\ UNCHANGED <<title, content, published_date, source_url, source_name,
                   max_age_days, now, text, name, companies, web,
                   all_announcements, session, ann_data, parsers, instance,
                   earlier, once, company_filter, runs>>

\* time.sleep(interval) returns
MainSleeps ==
    /\ pc \in { "sleep", "retry_sleep" }
    /\ now' = IF now < Min(NowValues) + MaxRequestTicks THEN now + 1 ELSE now
    /\ pc' = "finally_continue"
    /\ UNCHANGED <<title, content, published_date, source_url, source_name,
                   max_age_days, text, name, companies, web,
                   all_announcements, session, ann_data, parsers, instance,
                   earlier, once, company_filter, runs, ret>>

\* KeyboardInterrupt: caught in the try block, not in the handler of Exception
MainInterrupted ==
    /\ pc \in { "try", "sleep", "retry_sleep" }
    /\ pc = "try" => companies # <<>>
    /\ ret' = Raises("KeyboardInterrupt")
    /\ pc' = IF pc = "retry_sleep" THEN "finally_raise" ELSE "finally_break"
    /\ UNCHANGED <<title, content, published_date, source_url, source_name,
                   max_age_days, now, text, name, companies, web,
                   all_announcements, session, ann_data, parsers, instance,
                   earlier, once, company_filter, runs>>

\* finally: session.close()
MainFinally ==
    /\ pc \in { "finally_continue", "finally_break", "finally_raise" }
    /\ pc' = CASE pc = "finally_continue" -> "while"
               [] pc = "finally_break" -> "stopped"
               [] pc = "finally_raise" -> "raised"
    /\ UNCHANGED <<title, content, published_date, source_url, source_name,
                   max_age_days, now, text, name, companies, web,
                   all_announcements, session, ann_data, parsers, instance,
                   earlier, once, company_filter, runs, ret>>

MainRun == MainNoCompanies \/ MainRunReturns \/ MainRunRaises

NextMain ==
    MainEnter \/ MainRun \/ MainSleeps \/ MainInterrupted \/ MainFinally

SpecMain == InitMain /\ [][NextMain]_vars

\* time.sleep returns, the finally clause completes and the loop goes on
\* to its next iteration
LiveMain ==
    /\ SpecMain
    /\ WF_vars(MainEnter) /\ WF_vars(MainSleeps) /\ WF_vars(MainFinally)

-----------------------------------------------------------------------------
(* Properties of is_executive_move, under SpecClassify                      *)

\* stage 1: an executive keyword is a substring of s
KeywordOccurs(s) ==
    \E k \in 1..Len(EXECUTIVE_KEYWORDS) :
        \E i \in 1..Len(s) :
            StartsAt(s, i, EXECUTIVE_KEYWORDS[k])

\* stage 2: a term of the title vocabulary stands in s as a whole word,
\* letter case ignored
TitleTermOccurs(s) ==
    \E k \in 1..Len(EXECUTIVE_TITLES) :
        \E i \in 1..Len(s) :
            LET j == i + Len(EXECUTIVE_TITLES[k]) - 1
            IN  /\ j <= Len(s)
                /\ At(s, i - 1) \notin WordChar
                /\ At(s, j + 1) \notin WordChar
                /\ StrLower(SubSeq(s, i, j)) = StrLower(EXECUTIVE_TITLES[k])

\* C1: is_executive_move("Tyson Foods promotes John Smith to VP of
\* Operations", "") returns true.
C1_SpecHeadlineIsExecutiveMove ==
    ( /\ pc = "done"
      /\ title = "Tyson Foods promotes John Smith to VP of Operations"
      /\ content = "" )
    => ret = Some(TRUE)

\* C2: is_executive_move returns true exactly when an executive keyword is a
\* substring of the lower-cased "title body" and a title-vocabulary term
\* matches it as a whole word; otherwise it returns false.
C2_TwoStageAnd ==
    pc = "done" =>
        LET s == StrLower(Fmt2(title, content))
        IN  ret = Some(KeywordOccurs(s) /\ TitleTermOccurs(s))

\* a keyword met only inside a longer word, a title met in lower case
C2_Witness ==
    /\ pc = "done"
    /\ ret = Some(TRUE)
    /\ title = "surnames ceo"
    /\ content = ""

-----------------------------------------------------------------------------
(* Properties of _is_valid_person_name, under SpecValidate                  *)

\* the words of a name, lower-cased
NameWords(n) == [ k \in 1..Len(Split(n)) |-> StrLower(Split(n)[k]) ]

\* rule 1: not in the false-positive blacklist, letter case ignored
RuleNotBlacklisted(n) == \A b \in FALSE_POSITIVE_NAMES : StrLower(n) # b

\* rule 2: two to four words
RuleWordCount(n) == Len(Split(n)) \in 2..4

\* rule 3: the first word is not an invalid first word
RuleFirstWord(n) ==
    Len(Split(n)) >= 1 => NameWords(n)[1] \notin INVALID_FIRST_WORDS

\* rule 4: the last word is not an invalid last word
RuleLastWord(n) ==
    Len(Split(n)) >= 1 => NameWords(n)[Len(Split(n))] \notin INVALID_LAST_WORDS

\* rule 5: the first word is not an all-uppercase token of two or more
\* characters
RuleFirstNotAcronym(n) ==
    Len(Split(n)) >= 1 =>
        LET w == Split(n)[1]
        IN  ~( /\ Len(w) > 1
               /\ \A i \in 1..Len(w) : At(w, i) \notin Lower
               /\ \E i \in 1..Len(w) : At(w, i) \in Upper )

\* rule 6: the second word is not a publication or corporate-suffix term
RuleSecondWord(n) ==
    Len(Split(n)) >= 2 =>
        NameWords(n)[2] \notin { "news", "dive", "wire", "grocer", "times",
                                 "journal", "post", "tribune", "herald",
                                 "gazette", "foods", "farms", "brands",
                                 "executive" }

\* rule 7: the last word is not a mis-captured verb
RuleLastNotVerb(n) ==
    Len(Split(n)) >= 1 =>
        NameWords(n)[Len(Split(n))] \notin
            { "promoted", "appointed", "named", "hired", "takes", "joins",
              "becomes", "steps", "moves", "brings" }

\* rule 8: not "president" followed by a political surname
RuleNotPolitical(n) ==
    ~( /\ Len(Split(n)) >= 2
       /\ NameWords(n)[1] = "president"
       /\ NameWords(n)[2] \in { "trump", "biden", "obama", "bush", "clinton" } )

\* rule 9: no interior word is a stopword of at most three characters
RuleInterior(n) ==
    \A k \in 2..(Len(Split(n)) - 1) :
        ~( /\ NameWords(n)[k] \in { "and", "or", "the", "of", "for", "at", "in",
                                    "on", "to", "as", "its", "their", "new",
                                    "next" }
           /\ Len(Split(n)[k]) <= 3 )

AllNineRules(n) ==
    /\ RuleNotBlacklisted(n)
    /\ RuleWordCount(n)
    /\ RuleFirstWord(n)
    /\ RuleLastWord(n)
    /\ RuleFirstNotAcronym(n)
    /\ RuleSecondWord(n)
    /\ RuleLastNotVerb(n)
    /\ RuleNotPolitical(n)
    /\ RuleInterior(n)

\* C5: _is_valid_person_name accepts a string exactly when all nine gate
\* rules hold together, so any single failing rule rejects it; "Supermarket
\* News" and "New CEO" are rejected.
C5_NineRuleGate ==
    pc = "done" =>
        /\ ret = Some(AllNineRules(name))
        /\ name \in { "Supermarket News", "New CEO" } => ret = Some(FALSE)

\* a name that only the blacklist rejects
C5_Witness ==
    /\ pc = "done"
    /\ ret = Some(FALSE)
    /\ ~RuleNotBlacklisted(name)
    /\ RuleWordCount(name) /\ RuleFirstWord(name) /\ RuleLastWord(name)
    /\ RuleFirstNotAcronym(name) /\ RuleSecondWord(name)
    /\ RuleLastNotVerb(name) /\ RuleNotPolitical(name) /\ RuleInterior(name)

-----------------------------------------------------------------------------
(* Properties of extract_person_name, under SpecName                        *)

\* what pattern k captures in s: None, or the stripped group 1 of its
\* leftmost match
Capture(k, s) ==
    LET m == NameSearch(name_patterns[k], s)
    IN  IF m = None THEN None ELSE Some(Strip(m[1]))

\* pattern k captures a name that passes the validation gate
ValidCapture(k, s) == Capture(k, s) # None /\ AllNineRules(Capture(k, s)[1])

\* C4: extract_person_name returns the capture of the lowest-indexed of its
\* 12 patterns whose capture passes validation, skipping patterns whose
\* capture fails it, and returns none only when no pattern has a valid
\* capture.
C4_FirstValidPatternWins ==
    pc = "done" =>
        LET valid == { k \in 1..12 : ValidCapture(k, text) }
        IN  /\ Len(name_patterns) = 12
            /\ IF valid = {} THEN ret = None
               ELSE ret = Capture(Min(valid), text)

\* an earlier pattern captures an invalid name, a later one the name returned
C4_Witness ==
    /\ pc = "done"
    /\ ret # None
    /\ \E k \in 1..12 :
          /\ Capture(k, text) # None
          /\ ~ValidCapture(k, text)
          /\ \E j \in (k + 1)..12 :
                /\ ValidCapture(j, text)
                /\ ret = Capture(j, text)
                /\ \A h \in 1..(j - 1) : ~ValidCapture(h, text)

\* C6: every name extract_person_name returns has 2 to 4 words, a first word
\* outside INVALID_FIRST_WORDS and a last word outside INVALID_LAST_WORDS.
C6_ReturnedNameShape ==
    (pc = "done" /\ ret # None) =>
        LET words == Split(ret[1])
        IN  /\ 2 <= Len(words) /\ Len(words) <= 4
            /\ StrLower(words[1]) \notin INVALID_FIRST_WORDS
            /\ StrLower(words[Len(words)]) \notin INVALID_LAST_WORDS

\* a name of three words is returned although a pattern captured a name
\* with an invalid last word
C6_Witness ==
    /\ pc = "done"
    /\ ret # None
    /\ Len(Split(ret[1])) = 3
    /\ \E k \in 1..12 : Capture(k, text) # None /\ ~RuleLastWord(Capture(k, text)[1])

-----------------------------------------------------------------------------
(* Properties of extract_action, under SpecAction                           *)

\* some word of ws is a substring of the lower-cased s
Mentions(s, ws) == \E w \in ws : \E i \in 1..Len(s) : StartsAt(StrLower(s), i, w)

ActionLabels == { "promoted to", "appointed", "tapped as", "named", "joins as",
                  "announced as" }

\* C7: extract_action returns exactly one label, decided by the first
\* matching substring test in the order promoted, appoints/appointed,
\* taps/tapped, names/named, joins/hired/hires, announces/appointment, and
\* "named" when none matches; a text with both "promoted" and "named" yields
\* "promoted to".
C7_ActionPriority ==
    pc = "done" =>
        LET promoted == Mentions(text, {"promoted"})
            appointed == Mentions(text, {"appoints", "appointed"})
            tapped == Mentions(text, {"taps", "tapped"})
            named == Mentions(text, {"names", "named"})
            joined == Mentions(text, {"joins", "hired", "hires"})
            announced == Mentions(text, {"announces", "appointment"})
        IN  /\ ret # None /\ ret[1] \in ActionLabels
            /\ promoted => ret[1] = "promoted to"
            /\ (~promoted /\ appointed) => ret[1] = "appointed"
            /\ (~promoted /\ ~appointed /\ tapped) => ret[1] = "tapped as"
            /\ (~promoted /\ ~appointed /\ ~tapped /\ named) => ret[1] = "named"
            /\ (~promoted /\ ~appointed /\ ~tapped /\ ~named /\ joined)
                   => ret[1] = "joins as"
            /\ (~promoted /\ ~appointed /\ ~tapped /\ ~named /\ ~joined /\ announced)
                   => ret[1] = "announced as"
            /\ (~promoted /\ ~appointed /\ ~tapped /\ ~named /\ ~joined /\ ~announced)
                   => ret[1] = "named"

\* the text the specification quotes: promoted, and later named
C7_Witness ==
    /\ pc = "done"
    /\ text = "He was promoted and later named to the board"
    /\ ret = Some("promoted to")

-----------------------------------------------------------------------------
(* Properties of extract_title, under SpecTitle                             *)

\* the vocabulary term stands in s at i as a whole word, letter case
\* ignored; `folded' is s in lower case
TermAt(s, folded, i, term) ==
    LET j == i + Len(term) - 1
    IN  /\ j <= Len(s)
        /\ At(s, i - 1) \notin WordChar
        /\ At(s, j + 1) \notin WordChar
        /\ SubSeq(folded, i, j) = StrLower(term)

TermOccurs(s, term) ==
    LET folded == StrLower(s)
    IN  \E i \in 1..Len(s) : TermAt(s, folded, i, term)

\* C8: for a text in which the compound title "Senior Vice President"
\* occurs, the title extract_title returns is not truncated to the
\* overlapping generic term "President" or "Vice President".
C8_CompoundTitleNotTruncated ==
    (pc = "done" /\ TermOccurs(text, "Senior Vice President")) =>
        /\ ret # None
        /\ StrLower(ret[1]) \notin { "president", "vice president" }

(***************************************************************************)
(* The first vocabulary hit in s: the first term, in vocabulary order,     *)
(* that occurs in s, at its leftmost occurrence.  None when no term        *)
(* occurs; else matched is the title text found there, window the 50       *)
(* characters before and after it with the hit between them, and widened   *)
(* the connective phrase found in the window (None, or the phrase).        *)
(***************************************************************************)
FirstHit(s) ==
    LET folded == StrLower(s)
        terms == { k \in 1..Len(EXECUTIVE_TITLES) :
                     \E i \in 1..Len(s) : TermAt(s, folded, i, EXECUTIVE_TITLES[k]) }
        term == EXECUTIVE_TITLES[Min(terms)]
        first == Min({ i \in 1..Len(s) : TermAt(s, folded, i, term) })
        last == first + Len(term) - 1
        window == SubSeq(s, IF first - 50 < 1 THEN 1 ELSE first - 50,
                            IF last + 50 > Len(s) THEN Len(s) ELSE last + 50)
    IN  IF terms = {} THEN None
        ELSE Some([ matched |-> SubSeq(s, first, last),
                    window |-> window,
                    widened |-> FullTitleSearch(window, SubSeq(folded, first, last)) ])

\* the parts of C9 that do not depend on how "contains" compares letters
C9_Common(hit) ==
    /\ ret = None <=> hit = None
    /\ hit # None =>
          /\ hit[1].widened = None => ret = Some(hit[1].matched)
          /\ hit[1].widened # None => ret = Some(Strip(hit[1].widened[1]))

\* C9 as stated: extract_title returns none exactly when no vocabulary term
\* occurs as a whole word; the bare matched title when no connective phrase
\* is found in the 50-character window around the first vocabulary hit; and
\* otherwise the widened phrase, which always contains the matched title.
C9_WidenedContainsMatchedTitle ==
    pc = "done" =>
        LET hit == FirstHit(text)
        IN  /\ C9_Common(hit)
            /\ (hit # None /\ hit[1].widened # None) =>
                   Contains(ret[1], hit[1].matched)

\* C9 as amended: the widened phrase contains the matched title up to
\* letter case.
C9_WidenedContainsTitleIgnoringCase ==
    pc = "done" =>
        LET hit == FirstHit(text)
        IN  /\ C9_Common(hit)
            /\ (hit # None /\ hit[1].widened # None) =>
                   Contains(StrLower(ret[1]), StrLower(hit[1].matched))

\* a connective precedes the title in the text, but outside the window: the
\* bare title is returned
C9_Witness ==
    /\ pc = "done"
    /\ ret # None
    /\ LET hit == FirstHit(text)
       IN  /\ hit[1].widened = None
           /\ FullTitleSearch(text, StrLower(hit[1].matched)) # None
           /\ ret = Some(hit[1].matched)

-----------------------------------------------------------------------------
(* Properties of parse_article, under Spec                                  *)

\* the body as parse_article classifies and searches it
CleanBody == IF content # "" THEN clean_html(content) ELSE ""

\* title, space, markup-stripped body
CombinedText == title \o " " \o CleanBody

\* the classifier passes for the title and the cleaned body
ClassifierPasses ==
    /\ KeywordOccurs(StrLower(title \o " " \o CleanBody))
    /\ TitleTermOccurs(StrLower(title \o " " \o CleanBody))

\* C3: parse_article returns a Candidate only if is_executive_move passed for
\* the title and the cleaned body and extract_person_name returned a name
\* that passed _is_valid_person_name; when no valid person name is found the
\* result is none, even if a title and an action were extracted.
C3_CandidateNeedsClassifierAndName ==
    pc = "done" =>
        LET found == extract_person_name(CombinedText)
        IN  /\ (ret # None /\ ~Raised(ret)) =>
                  /\ ClassifierPasses
                  /\ found # None
                  /\ ret[1].person_name = found[1]
                  /\ AllNineRules(ret[1].person_name)
            /\ found = None => (ret = None \/ Raised(ret))

\* the classifier passes and a title and an action are extracted, but no
\* person: nothing is returned
C3_Witness ==
    /\ pc = "done"
    /\ ret = None
    /\ ClassifierPasses
    /\ extract_title(CombinedText) # None
    /\ extract_action(CombinedText) = "named"
    /\ extract_person_name(CombinedText) = None

\* the published date is older than now minus max_age_days days
OlderThanCutoff ==
    /\ max_age_days # None
    /\ published_date \in DOMAIN DateutilParse
    /\ parse_date(published_date)[1].wall < now - max_age_days[1] * HoursPerDay

\* C10: when parse_article is given max_age_days and the published date
\* resolves to a moment older than now minus max_age_days days, it returns
\* none even though classification and extraction would succeed.
C10_OldArticleDropped ==
    (pc = "done" /\ OlderThanCutoff) => ret = None

-----------------------------------------------------------------------------
(* Properties of the age comparison and of the date, under Spec             *)

\* the feed dates that parse to the wall-clock reading of published_date
SameWallClock ==
    { pd \in DOMAIN DateutilParse :
        /\ published_date \in DOMAIN DateutilParse
        /\ parse_date(pd)[1].wall = parse_date(published_date)[1].wall }

\* C11: the age comparison discards the UTC offset of an aware published
\* timestamp and keeps its wall-clock fields: timestamps with identical
\* wall-clock fields and different offsets get the same keep/drop decision,
\* and the comparison never fails for mixing aware and naive values.
C11_OffsetDiscarded ==
    pc = "done" =>
        /\ ret # Raises("TypeError")
        /\ \A pd \in SameWallClock :
              (parse_article(title, content, pd, source_url, source_name,
                             max_age_days, now) = None) <=> (ret = None)

\* an aware timestamp eight hours ahead of UTC is kept by its wall-clock
\* reading although the instant it denotes is before the cutoff, and a
\* timestamp with the same reading and another offset exists
C11_Witness ==
    /\ pc = "done"
    /\ ret # None
    /\ max_age_days = Some(7)
    /\ published_date \in DOMAIN DateutilParse
    /\ parse_date(published_date)[1].tzinfo = Some(8)
    /\ parse_date(published_date)[1].wall - 8 < now - 7 * HoursPerDay
    /\ \E pd \in SameWallClock : parse_date(pd)[1].tzinfo = Some(0)

\* the call returned the dict of a Candidate
IsCandidate(r) == r # None /\ ~Raised(r)

\* C12: parse_date returns none and never raises for an empty or unparsable
\* date string, and an unparsable date does not by itself disqualify an
\* article: with no age filter, parse_article still returns a Candidate with
\* announcement_date none whenever classification and name extraction
\* succeed.
C12_UnparsableDateKeepsCandidate ==
    (pc = "done" /\ published_date \notin DOMAIN DateutilParse) =>
        /\ parse_date(published_date) = None
        /\ (/\ max_age_days = None
            /\ ClassifierPasses
            /\ extract_person_name(CombinedText) # None)
           => (IsCandidate(ret) /\ ret[1].announcement_date = None)

\* the calendar date of the feed's published string, none when it has none
FeedDate(pd) ==
    IF pd \in DOMAIN DateutilParse
    THEN Some(DateutilParse[pd].wall \div HoursPerDay)
    ELSE None

\* articles that differ from the call's in title or body only
SiblingTitles == { title, "names John Smith CEO" }

\* C13: the announcement_date of a Candidate is a function of the feed's
\* published string only: it is the calendar date of parse_date(published)
\* or none, and articles that differ only in title and body, all producing
\* a Candidate, get the same announcement_date whatever dates their bodies
\* contain.
C13_DateFromFeedOnly ==
    (pc = "done" /\ IsCandidate(ret)) =>
        /\ ret[1].announcement_date = FeedDate(published_date)
        /\ \A t2 \in SiblingTitles : \A c2 \in Bodies :
              LET r2 == parse_article(t2, c2, published_date, source_url,
                                      source_name, max_age_days, now)
              IN  IsCandidate(r2) =>
                      r2[1].announcement_date = ret[1].announcement_date

\* the body carries the date 22 Oct and the feed says 25 Oct: the Candidate
\* is dated 25 Oct, as is its sibling without a body
C13_Witness ==
    /\ pc = "done"
    /\ IsCandidate(ret)
    /\ Contains(ret[1].raw_text, "Thu, 22 Oct 2026 12:00:00")
    /\ published_date = "Sun, 25 Oct 2026 18:00:00 GMT"
    /\ ret[1].announcement_date = Some(DateOf(Datetime(25, 18, Some(0))))
    /\ IsCandidate(parse_article(title, "", published_date, source_url,
                                 source_name, max_age_days, now))

-----------------------------------------------------------------------------
(* Properties of raw_text, under SpecLong                                   *)

\* C14: the raw_text of every Candidate is at most 2000 characters long and
\* is the prefix of the title followed by a space and the markup-stripped
\* body.
C14_RawTextIsBoundedPrefix ==
    (pc = "done" /\ IsCandidate(ret)) =>
        LET raw_text == ret[1].raw_text
        IN  /\ Len(raw_text) <= 2000
            /\ raw_text = SubSeq(CombinedText, 1, Len(raw_text))
            /\ Len(raw_text) < 2000 => raw_text = CombinedText

\* title and stripped body are longer than 2000 characters, and the
\* Candidate keeps the first 2000 of them
C14_Witness ==
    /\ pc = "done"
    /\ IsCandidate(ret)
    /\ Len(CombinedText) > 2000
    /\ Len(ret[1].raw_text) = 2000

-----------------------------------------------------------------------------
(* Properties of find_company_in_text, under SpecCompany                    *)

\* the needle occurs in the text as a substring, letter case ignored
OccursIgnoringCase(needle, hay) ==
    \E i \in 1..(Len(hay) - Len(needle) + 1) :
      StrLower(SubSeq(hay, i, i + Len(needle) - 1)) = StrLower(needle)

NameOccurs(company) == OccursIgnoringCase(company.name, text)

AliasOccurs(company) ==
    /\ "aliases" \in DOMAIN company
    /\ \E k \in 1..Len(company.aliases) :
         OccursIgnoringCase(company.aliases[k], text)

\* C15: find_company_in_text returns the first company of the list, in the
\* caller's order, whose canonical name or one of whose aliases occurs in the
\* text ignoring case, whatever later companies match and however they match;
\* it returns none exactly when no company of the list matches.
C15_FirstCompanyInListOrder ==
    pc = "done" =>
      LET matching == { i \in 1..Len(companies) :
                          NameOccurs(companies[i]) \/ AliasOccurs(companies[i]) }
      IN  /\ (matching = {}) = (ret = None)
          /\ \A i \in matching :
               (\A j \in matching : i <= j) => ret = Some(companies[i])

\* an earlier company matched only through an alias is returned although the
\* canonical name of a later company occurs in the text
C15_Witness ==
    /\ pc = "done"
    /\ \E i, j \in 1..Len(companies) :
         /\ i < j
         /\ \A h \in 1..(i - 1) :
              ~NameOccurs(companies[h]) /\ ~AliasOccurs(companies[h])
         /\ ~NameOccurs(companies[i]) /\ AliasOccurs(companies[i])
         /\ NameOccurs(companies[j])
         /\ ret = Some(companies[i])

-----------------------------------------------------------------------------
(* Properties of fetch_all, under SpecBatch                                 *)

\* the announcement carries a URL: source_url is neither missing nor empty
HasUrl(ann) == ann.source_url # None /\ ann.source_url # Some("")

\* the positions of the collected announcements that carry no URL or are the
\* first to carry theirs
FirstOfUrl ==
    { i \in 1..Len(all_announcements) :
        \/ ~HasUrl(all_announcements[i])
        \/ \A j \in 1..(i - 1) :
             all_announcements[j].source_url # all_announcements[i].source_url }

\* C16: in the batch fetch_all returns no two announcements share a non-empty
\* source_url; of the collected announcements with one non-empty URL exactly
\* the first collected is returned, every collected announcement without a
\* URL is returned, and the returned ones stand in the order of collection.
C16_OnePerUrl ==
    pc = "done" =>
      /\ \A i, j \in 1..Len(ret) :
           (HasUrl(ret[i]) /\ ret[i].source_url = ret[j].source_url) => i = j
      /\ Len(ret) = Cardinality(FirstOfUrl)
      /\ \A i \in FirstOfUrl :
           ret[Cardinality({ j \in FirstOfUrl : j <= i })] = all_announcements[i]

\* two collected announcements with the same URL differ and only the first is
\* returned, and two identical ones without URL are both returned
C16_Witness ==
    /\ pc = "done"
    /\ \E i, j \in 1..Len(all_announcements) :
         /\ i < j
         /\ i \in FirstOfUrl /\ j \notin FirstOfUrl
         /\ all_announcements[i] # all_announcements[j]
         /\ \E k \in 1..Len(ret) : ret[k] = all_announcements[i]
         /\ \A k \in 1..Len(ret) : ret[k] # all_announcements[j]
    /\ \E i, j \in 1..Len(ret) :
         i < j /\ ~HasUrl(ret[i]) /\ ret[i] = ret[j]

\* the articles the Google News queries about a company return, in order
GoogleArticles(company) ==
    Concat(SubSeq(web.google[company.name], 1, QueryCount))

\* how many articles of the sequence have an empty link
CountUnlinked(seq) ==
    Cardinality({ k \in 1..Len(seq) : seq[k].link = "" })

\* C17: no URL de-duplication step of a run drops an article without URL:
\* fetch_google_news returns every article with an empty link that its
\* queries returned, and fetch_all returns every collected announcement
\* without URL.
C17_UrlLessNeverDeduplicated ==
    pc = "done" =>
      /\ \A k \in 1..Len(companies) :
           CountUnlinked(fetch_google_news(web, companies[k].name))
             = CountUnlinked(GoogleArticles(companies[k]))
      /\ Cardinality({ k \in 1..Len(ret) : ~HasUrl(ret[k]) })
           = Cardinality({ k \in 1..Len(all_announcements) :
                             ~HasUrl(all_announcements[k]) })

\* the elements of a sequence
Elements(seq) == { seq[k] : k \in 1..Len(seq) }

\* C19: the announcements fetch_all returns, company attribution included,
\* do not depend on the order of collection: de-duplicating any permutation
\* of the collected announcements retains the same set.
C19_OrderIndependent ==
    pc = "done" =>
      \A f \in Permutations(1..Len(all_announcements)) :
        Elements(unique([ k \in 1..Len(all_announcements) |->
                            all_announcements[f[k]] ]))
          = Elements(ret)

-----------------------------------------------------------------------------
(* Properties of save_announcement, under SpecSave                          *)

\* a stored announcement of the candidate's company whose name contains the
\* candidate's name, letter case ignored, created at most
\* DEDUP_THRESHOLD_HOURS before nw
RecentDuplicates(sess, ann, nw) ==
    { k \in 1..Len(sess.announcements) :
        /\ sess.announcements[k].company_id = ann.company_id
        /\ OccursIgnoringCase(ann.person_name,
                              sess.announcements[k].person_name)
        /\ nw - sess.announcements[k].created_at <= DEDUP_THRESHOLD_HOURS }

\* the candidate is dated before the days the run looks back
TooOld(ann, mad, nw) ==
    /\ mad # None /\ ann.announcement_date # None
    /\ ann.announcement_date[1] < (nw \div HoursPerDay) - mad[1]

\* C18: whenever the database holds an announcement of the same company whose
\* stored name contains the candidate's name ignoring case and which was
\* created within the last DEDUP_THRESHOLD_HOURS hours, save_announcement
\* stores nothing and returns False; when every such announcement is older
\* than that or belongs to another company, a named candidate that is not too
\* old is stored and True returned.
C18_DuplicateWithinWindowBlocks ==
    [][ (pc = "save_announcement" /\ pc' = "done") =>
          IF RecentDuplicates(session, ann_data', now) # {}
          THEN session' = session /\ ret' = FALSE
          ELSE (ann_data'.person_name # "" /\ ~TooOld(ann_data', max_age_days, now))
                 => /\ ret' = TRUE
                    /\ Len(session'.announcements)
                         = Len(session.announcements) + 1 ]_vars

\* a named candidate, not too old, was refused because an announcement of its
\* company with a name that contains its name in other letter case was
\* created exactly DEDUP_THRESHOLD_HOURS before
C18_Witness ==
    /\ pc = "done" /\ ret = FALSE
    /\ ann_data.person_name # ""
    /\ ~TooOld(ann_data, max_age_days, now)
    /\ \E k \in RecentDuplicates(session, ann_data, now) :
         /\ session.announcements[k].person_name # ann_data.person_name
         /\ now - session.announcements[k].created_at = DEDUP_THRESHOLD_HOURS

-----------------------------------------------------------------------------
(* Properties of repeated parse_article calls, under SpecRepeat             *)

\* the call just made has the arguments of the call on record
SameArguments ==
    /\ pc = "done" /\ earlier # None
    /\ earlier[1].article.title = title
    /\ earlier[1].article.content = content
    /\ earlier[1].article.published = published_date
    /\ earlier[1].max_age_days = max_age_days

\* no look-back is given: max_age_days is None or 0
NoLookBack == max_age_days = None \/ max_age_days = Some(0)

-----------------------------------------------------------------------------
(* Properties of the outcome of parse_article, under Spec                   *)

\* C21: whatever the title, the body and the published-date text,
\* parse_article ends with a Candidate or with none: no exception of the
\* markup cleaning, the date parsing, the age comparison or the pattern
\* matching leaves the call.
C21_CandidateOrNone ==
    pc = "done" => (ret = None \/ IsCandidate(ret))

\* C27: when max_age_days is given and the published date is empty or cannot
\* be parsed, the age filter is not applied: parse_article returns a Candidate
\* with announcement_date none whenever the classifier passes and a valid
\* person name is extracted.
C27_UndatedArticlePassesAgeFilter ==
    (/\ pc = "done"
     /\ max_age_days # None
     /\ published_date \notin DOMAIN DateutilParse
     /\ ClassifierPasses
     /\ extract_person_name(CombinedText) # None)
      => (IsCandidate(ret) /\ ret[1].announcement_date = None)

-----------------------------------------------------------------------------
(* The title "President" before a name, under SpecValidate                  *)

\* the gate rules other than the one on the first word
OtherRules(n) ==
    /\ RuleNotBlacklisted(n)
    /\ RuleWordCount(n)
    /\ RuleLastWord(n)
    /\ RuleFirstNotAcronym(n)
    /\ RuleSecondWord(n)
    /\ RuleLastNotVerb(n)
    /\ RuleInterior(n)

StartsWithPresident(n) ==
    Len(Split(n)) >= 2 /\ NameWords(n)[1] = "president"

\* C23: a name whose first word is "President" is accepted when the word that
\* follows is not trump, biden, obama, bush or clinton and the other rules
\* hold, and is rejected when the word that follows is one of those surnames.
C23_PresidentBeforeRegularName ==
    (pc = "done" /\ StartsWithPresident(name)) =>
        /\ (RuleNotPolitical(name) /\ OtherRules(name)) => ret = Some(TRUE)
        /\ ~RuleNotPolitical(name) => ret = Some(FALSE)

-----------------------------------------------------------------------------
(* Empty names and aliases, under SpecCompany                               *)

\* a non-empty canonical name or a non-empty alias of the company occurs in
\* the text, letter case ignored
MentionedByName(company) ==
    \/ company.name # "" /\ NameOccurs(company)
    \/ /\ "aliases" \in DOMAIN company
       /\ \E k \in 1..Len(company.aliases) :
            /\ company.aliases[k] # ""
            /\ OccursIgnoringCase(company.aliases[k], text)

\* C30: find_company_in_text returns a company only when a non-empty canonical
\* name or a non-empty alias of that company occurs in the text; a company
\* with an empty-string alias or name does not match a text that mentions
\* none of its names.
C30_EmptyAliasNeverMatches ==
    (pc = "done" /\ ret # None) => MentionedByName(ret[1])

-----------------------------------------------------------------------------
(* Properties of process_articles, under SpecBatch                          *)

\* the company's canonical name or one of its aliases occurs in the title and
\* content of the article, letter case ignored
ArticleMentions(article, company) ==
    LET combined == Fmt2(article.title, article.content)
    IN  \/ OccursIgnoringCase(company.name, combined)
        \/ /\ "aliases" \in DOMAIN company
           /\ \E k \in 1..Len(company.aliases) :
                OccursIgnoringCase(company.aliases[k], combined)

\* the company an article is attributed to: the target when it is mentioned,
\* without a target the first tracked company mentioned; <<>> when none
AttributedTo(article, target) ==
    IF target # None
    THEN IF ArticleMentions(article, target[1]) THEN target ELSE None
    ELSE LET matching == { i \in 1..Len(companies) :
                             ArticleMentions(article, companies[i]) }
         IN  IF matching = {} THEN None
             ELSE Some(companies[CHOOSE i \in matching :
                                   \A j \in matching : i <= j])

\* the URL and the company of what process_articles is to yield for the
\* articles, one entry for each article that parses to a Candidate and is
\* attributed to a company
ExpectedYield(articles, target) ==
    Concat([ k \in 1..Len(articles) |->
               IF \/ ~IsCandidate(parse_article(articles[k].title,
                                                articles[k].content,
                                                articles[k].published,
                                                Some(articles[k].link),
                                                Some(articles[k].source_name),
                                                None, now))
                  \/ AttributedTo(articles[k], target) = None
               THEN <<>>
               ELSE << [ source_url |-> Some(articles[k].link),
                         company_id |-> AttributedTo(articles[k], target)[1].id,
                         company_name |->
                             AttributedTo(articles[k], target)[1].name ] >> ])

\* the articles fetch_for_company hands to process_articles for a company
ArticlesFor(company) ==
    fetch_google_news(web, company.name)
      \o fetch_newsapi(web, company.name)
      \o fetch_company_newsroom(web, company.name)
      \o fetch_prnewswire_company(web, company.name)

\* the URL and the company of each collected announcement
YieldedAttribution ==
    [ k \in 1..Len(all_announcements) |->
        [ source_url |-> all_announcements[k].source_url,
          company_id |-> all_announcements[k].company_id,
          company_name |-> all_announcements[k].company_name ] ]

\* C22: every Candidate process_articles yields carries the id and name of a
\* tracked company whose name or alias occurs in the article's title and
\* content.  With a target company the Candidate is yielded, attributed to
\* the target, only if the target's name or an alias occurs in the text, and
\* the article is dropped otherwise; without a target it is attributed to the
\* first matching company of the aggregator's list and dropped when none
\* matches.
C22_AttributedToMentionedCompany ==
    pc = "done" =>
      YieldedAttribution =
        ExpectedYield(fetch_industry_feeds(web), None)
          \o Concat([ k \in 1..Len(companies) |->
                        ExpectedYield(ArticlesFor(companies[k]),
                                      Some(companies[k])) ])

\* an article that names only the second company is fetched for the first and
\* dropped there, and an industry article that names both is attributed to
\* the first
C22_Witness ==
    /\ pc = "done"
    /\ Len(companies) = 2
    /\ \E k \in 1..Len(ArticlesFor(companies[1])) :
         /\ ~ArticleMentions(ArticlesFor(companies[1])[k], companies[1])
         /\ ArticleMentions(ArticlesFor(companies[1])[k], companies[2])
         /\ \A e \in 1..Len(all_announcements) :
              all_announcements[e].source_url
                  = Some(ArticlesFor(companies[1])[k].link)
                => all_announcements[e].company_id = companies[2].id
    /\ Len(web.industry) > 0
    /\ ArticleMentions(web.industry[1], companies[1])
    /\ ArticleMentions(web.industry[1], companies[2])
    /\ all_announcements[1].company_id = companies[1].id

-----------------------------------------------------------------------------
(* The age limit of save_announcement, under SpecSave                       *)

\* the candidate's announcement date is earlier than today's date minus
\* max_age_days days
DatedBeforeCutoff(ann, mad, nw) ==
    /\ mad # None /\ ann.announcement_date # None
    /\ ann.announcement_date[1] < (nw \div HoursPerDay) - mad[1]

\* C24: save_announcement called with max_age_days set never stores a
\* Candidate whose announcement_date is earlier than today's date minus
\* max_age_days days: it returns False and creates neither an announcement
\* nor a post; so no announcement stored by a run that looks back d days is
\* dated more than d days before the day it was stored.
C24_AgeLimitOnSave ==
    /\ [][ (/\ pc = "save_announcement" /\ pc' = "done"
            /\ DatedBeforeCutoff(ann_data', max_age_days, now))
             => (ret' = FALSE /\ session' = session) ]_vars
    /\ [](max_age_days # None =>
            \A k \in 1..Len(session.announcements) :
              session.announcements[k].announcement_date # None =>
                session.announcements[k].announcement_date[1]
                  >= (session.announcements[k].created_at \div HoursPerDay)
                       - max_age_days[1])

-----------------------------------------------------------------------------
(* The stored announcements, under SpecSave                                 *)

\* row b was stored after row a, for the same company, at most
\* DEDUP_THRESHOLD_HOURS after row a was created
StoredWithinWindow(a, b) ==
    /\ a < b
    /\ session.announcements[a].company_id = session.announcements[b].company_id
    /\ session.announcements[b].created_at - session.announcements[a].created_at
         <= DEDUP_THRESHOLD_HOURS

\* C28: after any sequence of save_announcement calls made one at a time, for
\* every two stored announcements A, stored earlier, and B, stored later, of
\* the same company with B created within DEDUP_THRESHOLD_HOURS of A, the
\* person name of B is not a substring of the person name of A, letter case
\* ignored; in particular the two names are not equal ignoring case.
C28_NoDuplicateStoredWithinWindow ==
    \A a, b \in 1..Len(session.announcements) :
        StoredWithinWindow(a, b) =>
            ~OccursIgnoringCase(session.announcements[b].person_name,
                                session.announcements[a].person_name)

\* a second announcement of the same company was stored within the window of
\* the first: its name contains the first name and is not contained in it
C28_Witness ==
    /\ pc = "done" /\ ret = TRUE
    /\ \E a, b \in 1..Len(session.announcements) :
         /\ StoredWithinWindow(a, b)
         /\ session.announcements[a].person_name # ""
         /\ OccursIgnoringCase(session.announcements[a].person_name,
                               session.announcements[b].person_name)

-----------------------------------------------------------------------------
(* The status of an announcement, under SpecDashboard                       *)

ValidStatuses == { "pending", "approved", "rejected", "posted" }

\* every announcement is created with status pending
CreatedPending ==
    [][ \A k \in 1..Len(session'.announcements) :
          k > Len(session.announcements) =>
            session'.announcements[k].status = "pending" ]_vars

\* the status of every announcement is one of the four valid values
StatusValid ==
    \A k \in 1..Len(session.announcements) :
        session.announcements[k].status \in ValidStatuses

\* a PUT request leaves the posts, the number of announcements and every
\* column of every announcement outside the given ones as they were
PutChangesOnly(columns) ==
    pc' = "api_update_announcement" =>
        /\ session'.posts = session.posts
        /\ Len(session'.announcements) = Len(session.announcements)
        /\ \A k \in 1..Len(session.announcements) :
             \A f \in DOMAIN session.announcements[k] \ columns :
               session'.announcements[k][f] = session.announcements[k][f]

\* C29 as stated: every announcement is created with status pending; after
\* any sequence of dashboard API calls its status is one of pending, approved,
\* rejected, posted; the PUT endpoint changes only person_name, new_title,
\* previous_title and previous_company, and never the status.
C29_StatusLifecycle ==
    /\ CreatedPending
    /\ []StatusValid
    /\ [][PutChangesOnly({ "person_name", "new_title", "previous_title",
                           "previous_company" })]_vars

\* C29, amended: the same, where the PUT endpoint changes only person_name,
\* new_title, previous_title, previous_company and the updated_at timestamp
\* of the announcement, and never the status.
C29_StatusLifecycleWithTimestamp ==
    /\ CreatedPending
    /\ []StatusValid
    /\ [][PutChangesOnly({ "person_name", "new_title", "previous_title",
                           "previous_company", "updated_at" })]_vars

\* a PUT whose body carries a new name and a status has renamed the person of
\* an approved announcement, which is still approved
C29_Witness ==
    /\ pc = "api_update_announcement" /\ ret = Some(200)
    /\ session.announcements[1].person_name = "Jane Roe"
    /\ session.announcements[1].status = "approved"
    /\ session.announcements[1].updated_at > session.announcements[1].created_at

-----------------------------------------------------------------------------
(* Properties of run_aggregation, under SpecRun                             *)

\* how many of the announcements from index i on are skipped because the
\* database, as the announcements before them leave it, holds a recent
\* announcement of the same company and person
RECURSIVE SkippedAsDuplicates(_, _, _, _, _)
SkippedAsDuplicates(sess, announcements, i, mad, nw) ==
    IF i > Len(announcements) THEN 0
    ELSE LET ann == announcements[i]
             refused == ann.person_name = "" \/ TooOld(ann, mad, nw)
             duplicate == RecentDuplicates(sess, ann, nw) # {}
         IN  (IF ~refused /\ duplicate THEN 1 ELSE 0)
               + SkippedAsDuplicates(IF refused \/ duplicate THEN sess
                                     ELSE create_announcement(sess, ann, nw),
                                     announcements, i + 1, mad, nw)

\* C25: run_aggregation returns (new_count, duplicate_count), where new_count
\* is the number of announcements the run stored and duplicate_count the
\* number of Candidates it skipped because they duplicate a recent record of
\* the same company and person.
C25_CountsStoredAndDuplicates ==
    [][ (pc = "run_aggregation" /\ pc' = "done") =>
          ret' = << Len(session'.announcements) - Len(session.announcements),
                    SkippedAsDuplicates(session, unique(all_announcements'), 1,
                                        max_age_days, now) >> ]_vars

-----------------------------------------------------------------------------
(* Properties of main, under LiveMain                                       *)

Interrupted == ret = Raises("KeyboardInterrupt")

\* an exception of a run has left main only with --once
RaisedOnlyOnce ==
    (pc \in { "finally_raise", "raised" } /\ ret = Raises("Exception")) => once

\* with --once the loop body is entered once, and exactly once when main ends
OneRunWithOnce ==
    once => /\ runs <= 1
            /\ pc \in { "stopped", "raised" } => runs = 1

\* the loop body is entered again only from the finally clause, where the
\* session of the run before was closed, and after the sleep
ClosedAndSleptBeforeNextRun ==
    /\ pc' = "try" => pc \in { "try", "while" }
    /\ pc' = "while" => pc \in { "while", "finally_continue" }
    /\ pc' = "finally_continue" => pc \in { "finally_continue", "sleep",
                                            "retry_sleep" }

\* main is ending, or has ended, on an exception of any kind
EndedByException ==
    /\ pc \in { "finally_break", "finally_raise", "stopped", "raised" }
    /\ Raised(ret)

=============================================================================
